---- MODULE Spec2Model ----
(***************************************************************************)
(* A model of dspy-refrag: the selection strategies of AdvancedSensor      *)
(* (src/dspy_refrag/sensor_advanced.py), the heuristic Sensor              *)
(* (src/dspy_refrag/sensor.py), SimpleRetriever (src/dspy_refrag/          *)
(* retriever.py) and the forward pass of REFRAGModule                      *)
(* (src/dspy_refrag/refrag.py) and REFRAGBenchmarkModule                   *)
(* (benchmarks/refrag_benchmark.py).                                       *)
(*                                                                         *)
(* Representation.  Vectors are pairs of small integers, so that every dot *)
(* product is an integer that the floating-point code computes exactly.    *)
(* diversity_lambda and adaptive_percentile are held in quarters (2 is     *)
(* 0.5), ensemble weights in quarters, temperature in units of 1/1024      *)
(* (1024 is 1.0): all are dyadic, so the products the code forms with them *)
(* are exact in binary floating point and the model's integer arithmetic   *)
(* orders them as the code does.  Python lists are sequences; an index     *)
(* returned by a strategy is the Python (0-based) index.  None is the      *)
(* empty sequence and a present optional value v is <<v>>.                 *)
(***************************************************************************)
EXTENDS Integers, Sequences, FiniteSets, TLC

VARIABLES
    sPc,          \* AdvancedSensor: "unbuilt", "ready", "ctor_raised", "returned", "select_raised"
    requested,    \* the SelectionConfig handed to AdvancedSensor.__init__
    config,       \* self.config of the constructed sensor
    callArgs,     \* arguments of the select call in progress / just finished
    callResult,   \* what that select call returned
    np_random,    \* numpy's global RandomState (np.random): the number of
                  \* sampling calls that have advanced it since the objects
                  \* of the initial state were constructed
    \* --- one REFRAGModule / REFRAGBenchmarkModule and its collaborators ---
    module,       \* "REFRAGModule" or "REFRAGBenchmarkModule"
    self_lm,      \* self.lm: "None" or "LM"
    self_k,       \* self.k
    self_budget,  \* self.budget
    self_sensor,  \* self.sensor
    corpus,       \* self.retriever._corpus: passages; metadata is a reference into heap
    embedder,     \* self.retriever.embedder: "rand_vec" for the default
                  \* lambda text: self._rand_vec(), "given" for a callable
                  \* the caller passed
    heap,         \* the dict objects: reference -> dict
    heap0,        \* the candidates' metadata dicts as they were at construction
    pc,           \* where forward is: "idle", "retrieve", "embed", "select",
                  \* "attach", "generate", "done", "raised"
    query,        \* the argument of forward
    passages,     \* locals of forward
    vectors,
    metadata,
    qv,
    selected_idxs,
    metadata_with_selection,
    context_str,
    prompt,
    result,       \* the REFRAGContext returned, or None
    error,        \* the exception forward raised, or None
    calls,        \* the calls forward made to its collaborators, in order, each
                  \* with " raised" appended when it raised
    \* --- fragments and their serializers ---
    fragments,    \* the caller's list of constructed Fragment objects
    wire,         \* the serialized data the caller holds, or None
    serCall,      \* the constructor / serializer call just made, or None
    serResult,    \* its outcome, or None
    \* --- one call of chunk_text ---
    ct_pc,        \* "idle", "loop", "returned"
    ct_text,      \* text
    ct_max_chars, \* max_chars
    ct_overlap,   \* overlap
    ct_i,         \* i
    ct_chunks,    \* chunks
    \* --- threads sharing one InMemoryStore ---
    records,      \* self._records
    lock,         \* self._lock: None, or <<t>> when thread t holds it
    thread,       \* per thread: where it is in save / get_recent_by_type / search
    saved,        \* history: every save that has returned, with the id it
                  \* returned, in order of return
    \* --- threads calling select with the Uncertainty strategy ---
    uThread,      \* per thread: where it is in np.random.choice
    rand_calls    \* history of the global RandomState: the thread served by
                  \* each of its sampling rounds, in order

sensorVars == <<sPc, requested, config, callArgs, callResult, np_random>>

moduleVars == <<module, self_lm, self_k, self_budget, self_sensor, corpus, embedder, heap0>>

forwardVars == <<heap, pc, query, passages, vectors, metadata, qv, selected_idxs,
                 metadata_with_selection, context_str, prompt, result, error, calls>>

fragmentVars == <<fragments, wire, serCall, serResult>>

chunkVars == <<ct_pc, ct_text, ct_max_chars, ct_overlap, ct_i, ct_chunks>>

storeVars == <<records, lock, thread, saved>>

randomVars == <<uThread, rand_calls>>

\* Everything outside the sensor and the module.
libVars == <<fragmentVars, chunkVars, storeVars, randomVars>>

vars == <<sensorVars, moduleVars, forwardVars, libVars>>

(***************************************************************************)
(* Bounds of the model.                                                    *)
(***************************************************************************)
MaxN == 3        \* longest candidate list handed to select
MaxBudget == 3   \* largest budget
MaxK == 3        \* largest k of a module
MaxDraws == 3    \* sampling calls made on the global random state
MaxFrags == 2    \* fragments in the caller's list
MaxLen == 3      \* characters of a text given to chunk_text; also its max_chars, overlap
MaxChunks == 4   \* entries of the list chunk_text builds that are followed
MaxThreads == 2  \* threads
MaxRecords == 2  \* records saved to the store

None == <<>>
Some(v) == <<v>>

Min(a, b) == IF a <= b THEN a ELSE b

\* The vectors candidates and queries are drawn from.
VecPool == {<<1, 0>>, <<0, 1>>, <<1, 1>>, <<2, 1>>}
QueryVecs == {<<1, 0>>, <<1, 1>>}

ChunkLists == UNION {[1..n -> VecPool] : n \in 0..MaxN}

(***************************************************************************)
(* SelectionConfig and its defaults.                                       *)
(***************************************************************************)
DefaultConfig ==
    [strategy |-> "similarity",
     diversity_lambda |-> 2,         \* 0.5
     temperature |-> 1024,           \* 1.0
     ensemble_weights |-> None,
     adaptive_percentile |-> 3,      \* 0.75
     min_score |-> None]

\* A validation that lets a temperature of 0 and a percentile above 1 pass.
ValidateConfigLax(c) ==
    /\ ~(c.diversity_lambda < 0 \/ c.diversity_lambda > 4)
    /\ ~(c.temperature < 0)
    /\ ~(c.adaptive_percentile < 0)

\* AdvancedSensor._validate_config: TRUE when no ValueError is raised.
ValidateConfig(c) ==
    /\ ~(c.diversity_lambda < 0 \/ c.diversity_lambda > 4)
    /\ ~(c.temperature <= 0)
    /\ ~(c.adaptive_percentile < 0 \/ c.adaptive_percentile > 4)

(***************************************************************************)
(* Helpers standing for numpy and Python list operations.                  *)
(***************************************************************************)
Dot(u, v) == u[1] * v[1] + u[2] * v[2]

\* The Python indices of a list.
Indices(vecs) == 0..(Len(vecs) - 1)

\* AdvancedSensor._compute_similarities: scores[i] = dot(query, chunk i).
ComputeSimilarities(q, vecs) == [i \in Indices(vecs) |-> Dot(q, vecs[i + 1])]

Reverse(s) == [i \in 1..Len(s) |-> s[Len(s) + 1 - i]]

\* s[:n] for n >= 0.
Take(s, n) == SubSeq(s, 1, Min(n, Len(s)))

RangeOf(s) == {s[i] : i \in 1..Len(s)}

\* 0-based position of x in s (list.index / enumerate).
RankIn(s, x) == (CHOOSE i \in 1..Len(s) : s[i] = x) - 1

MaxOf(S) == CHOOSE x \in S : \A y \in S : y <= x

\* np.argsort over the entries S of sc: every ascending order of S.  The
\* default kind is not stable, so entries with equal keys may come in any
\* order.
RECURSIVE ArgSort(_, _)
ArgSort(S, sc) ==
    IF S = {} THEN {<<>>}
    ELSE UNION {{<<i>> \o p : p \in ArgSort(S \ {i}, sc)} :
                i \in {j \in S : \A m \in S : sc[j] <= sc[m]}}

\* np.argsort(sc)[::-1][:budget], mapped back to the indices of S.
TopDescending(S, sc, budget) == {Take(Reverse(p), budget) : p \in ArgSort(S, sc)}

\* np.argmax over the entries S of sc: the first (smallest) index of a maximum.
ArgMax(S, sc) ==
    CHOOSE i \in S : /\ \A m \in S : sc[m] <= sc[i]
                     /\ \A m \in S : sc[m] = sc[i] => i <= m

Returned(s) == [kind |-> "returned", value |-> s]
Raised(e) == [kind |-> "raised", value |-> <<e>>]

(***************************************************************************)
(* The selection strategies.  Each operator gives the set of outcomes the  *)
(* method can produce: one outcome for a deterministic method, several     *)
(* where numpy leaves the order of equal keys open or where the method     *)
(* draws from the random source.                                           *)
(***************************************************************************)

\* _select_similarity with a fallback to the best candidate when min_score
\* leaves none.
SelectSimilarityFallback(cfg, q, vecs, budget) ==
    LET scores == ComputeSimilarities(q, vecs)
        valid_indices == IF cfg.min_score = None
                         THEN Indices(vecs)
                         ELSE {i \in Indices(vecs) : scores[i] >= cfg.min_score[1]}
    IN  IF valid_indices = {}
        THEN {Returned(<<ArgMax(Indices(vecs), scores)>>)}
        ELSE {Returned(r) : r \in TopDescending(valid_indices, scores, budget)}

\* AdvancedSensor._select_similarity
SelectSimilarity(cfg, q, vecs, budget) ==
    LET scores == ComputeSimilarities(q, vecs)
    IN  IF cfg.min_score # None
        THEN LET valid_indices == {i \in Indices(vecs) : scores[i] >= cfg.min_score[1]}
             IN  IF valid_indices = {}
                 THEN {Returned(<<>>)}
                 ELSE {Returned(r) : r \in TopDescending(valid_indices, scores, budget)}
        ELSE {Returned(r) : r \in TopDescending(Indices(vecs), scores, budget)}

\* A score that forgets the picks made so far: lambda * relevance.
MMRScoreRelevanceOnly(lambda4, q, vecs, idx, selected) ==
    lambda4 * Dot(q, vecs[idx + 1])

\* The MMR score of candidate idx given the picks made so far, times 4:
\* lambda * relevance - (1 - lambda) * redundancy.
MMRScore(lambda4, q, vecs, idx, selected) ==
    LET relevance == Dot(q, vecs[idx + 1])
        redundancy == MaxOf({Dot(vecs[idx + 1], vecs[sel + 1]) : sel \in RangeOf(selected)})
    IN  lambda4 * relevance - (4 - lambda4) * redundancy

\* The loop of _select_mmr: `todo` iterations are left.
RECURSIVE MMRLoop(_, _, _, _, _, _)
MMRLoop(lambda4, q, vecs, selected, remaining, todo) ==
    IF todo = 0 \/ remaining = {}
    THEN selected
    ELSE LET sc == IF selected = <<>>
                   THEN [i \in remaining |-> Dot(q, vecs[i + 1])]
                   ELSE [i \in remaining |-> MMRScore(lambda4, q, vecs, i, selected)]
             best_idx == ArgMax(remaining, sc)
         IN  MMRLoop(lambda4, q, vecs, Append(selected, best_idx),
                     remaining \ {best_idx}, todo - 1)

\* AdvancedSensor._select_mmr
SelectMMR(cfg, q, vecs, budget) ==
    {Returned(MMRLoop(cfg.diversity_lambda, q, vecs, <<>>, Indices(vecs), budget))}

\* np.exp(x) is 0.0 in double precision when x < -745.133...; x is
\* -(num / den) here, with num >= 0 and den > 0.
ExpIsZero(num, den) == num * 1000 > 745134 * den

\* The indices whose softmax probability is positive: exp of
\* (score / temperature - max(score / temperature)) does not underflow.
PositiveProbs(cfg, q, vecs) ==
    LET scores == ComputeSimilarities(q, vecs)
        top == MaxOf({scores[i] : i \in Indices(vecs)})
    IN  {i \in Indices(vecs) : ~ExpIsZero((top - scores[i]) * 1024, cfg.temperature)}

\* All lists of n distinct elements of S.
RECURSIVE DistinctLists(_, _)
DistinctLists(S, n) ==
    IF n = 0 THEN {<<>>}
    ELSE UNION {{<<i>> \o p : p \in DistinctLists(S \ {i}, n - 1)} : i \in S}

\* AdvancedSensor._select_uncertainty: np.random.choice(N, size=budget,
\* replace=False, p=probs) raises ValueError when fewer than `size` entries
\* of p are positive, and otherwise returns `size` distinct indices of
\* positive probability, in an order the random source decides.
SelectUncertainty(cfg, q, vecs, budget) ==
    LET positive == PositiveProbs(cfg, q, vecs)
    IN  IF Cardinality(positive) < budget
        THEN {Raised("ValueError: Fewer non-zero entries in p than size")}
        ELSE {Returned(r) : r \in DistinctLists(positive, budget)}

\* The percentile with method "higher" (times 4): the order statistic above
\* the virtual index, without interpolation.
PercentileHigher(S, sc, pct4) ==
    LET sorted == CHOOSE p \in ArgSort(S, sc) : TRUE
        n == Len(sorted)
        lo == ((n - 1) * pct4) \div 4
        hi == Min(lo + 1, n - 1)
    IN  4 * sc[sorted[hi + 1]]

\* np.percentile(similarities, adaptive_percentile * 100), times 4: linear
\* interpolation between the two order statistics around (n - 1) * p.
Percentile(S, sc, pct4) ==
    LET sorted == CHOOSE p \in ArgSort(S, sc) : TRUE
        n == Len(sorted)
        virtual4 == (n - 1) * pct4
        lo == virtual4 \div 4
        hi == Min(lo + 1, n - 1)
        gamma4 == virtual4 % 4
    IN  4 * sc[sorted[lo + 1]] + gamma4 * (sc[sorted[hi + 1]] - sc[sorted[lo + 1]])

\* _select_adaptive ranking the candidates that pass in ascending order.
SelectAdaptiveLowest(cfg, q, vecs, budget) ==
    LET similarities == ComputeSimilarities(q, vecs)
        threshold4 == Percentile(Indices(vecs), similarities, cfg.adaptive_percentile)
        valid_indices == {i \in Indices(vecs) : 4 * similarities[i] >= threshold4}
    IN  IF valid_indices = {}
        THEN {Returned(<<ArgMax(Indices(vecs), similarities)>>)}
        ELSE {Returned(Take(p, budget)) : p \in ArgSort(valid_indices, similarities)}

\* AdvancedSensor._select_adaptive
SelectAdaptive(cfg, q, vecs, budget) ==
    LET similarities == ComputeSimilarities(q, vecs)
        threshold4 == Percentile(Indices(vecs), similarities, cfg.adaptive_percentile)
        valid_indices == {i \in Indices(vecs) : 4 * similarities[i] >= threshold4}
    IN  IF valid_indices = {}
        THEN {Returned(<<ArgMax(Indices(vecs), similarities)>>)}
        ELSE {Returned(r) : r \in TopDescending(valid_indices, similarities, budget)}

\* The strategies the ensemble can run (every strategy but the ensemble).
StrategyOutcomes(cfg, q, vecs, budget) ==
    CASE cfg.strategy = "similarity"  -> SelectSimilarity(cfg, q, vecs, budget)
      [] cfg.strategy = "mmr"         -> SelectMMR(cfg, q, vecs, budget)
      [] cfg.strategy = "uncertainty" -> SelectUncertainty(cfg, q, vecs, budget)
      [] cfg.strategy = "adaptive"    -> SelectAdaptive(cfg, q, vecs, budget)

\* temp_sensor.select(...) inside _select_ensemble: a sensor with the
\* default configuration but for its strategy.
TempSensorSelect(strategy, q, vecs, budget) ==
    IF vecs = <<>>
    THEN {Returned(<<>>)}
    ELSE StrategyOutcomes([DefaultConfig EXCEPT !.strategy = strategy],
                          q, vecs, Min(budget, Len(vecs)))

\* Votes that do not depend on the rank: `weight` for every selected
\* candidate.
BallotFlat(selections, weight, vecs) ==
    [i \in Indices(vecs) |-> IF i \in RangeOf(selections) THEN weight ELSE 0]

\* The votes (times 4) one strategy's selections give to every candidate:
\* weight * (len(selections) - rank) to the candidate at `rank`.
Ballot(selections, weight, vecs) ==
    [i \in Indices(vecs) |->
        IF i \in RangeOf(selections)
        THEN weight * (Len(selections) - RankIn(selections, i))
        ELSE 0]

\* The strategies from the s-th on are run in turn, each with the default
\* configuration; `tallies` holds the vote_scores the strategies before can
\* have produced.  A strategy that raises ends the call; zip(all_selections,
\* weights) gives a vote to the strategies that have a weight.  The result
\* is the set of the outcomes: an exception, or the final vote_scores.
RECURSIVE Tally(_, _, _, _, _, _, _)
Tally(strategies, weights, q, vecs, budget, s, tallies) ==
    IF s > Len(strategies) \/ tallies = {}
    THEN {[kind |-> "votes", value |-> v] : v \in tallies}
    ELSE LET outs == TempSensorSelect(strategies[s], q, vecs, budget)
             returned == {o \in outs : o.kind = "returned"}
             ballots == {Ballot(o.value, weights[s], vecs) : o \in returned}
             counted == IF s <= Len(weights)
                        THEN {[i \in Indices(vecs) |-> v[i] + ballot[i]] :
                                 v \in tallies, ballot \in ballots}
                        ELSE IF returned = {} THEN {} ELSE tallies
         IN  (outs \ returned)
             \cup Tally(strategies, weights, q, vecs, budget, s + 1, counted)

\* AdvancedSensor._select_ensemble
SelectEnsemble(cfg, q, vecs, budget) ==
    LET strategies == IF cfg.ensemble_weights = None
                      THEN <<"similarity", "mmr">>
                      ELSE <<"similarity", "mmr", "uncertainty">>
        weights == IF cfg.ensemble_weights = None
                   THEN <<2, 2>>
                   ELSE cfg.ensemble_weights[1]
        tallies == Tally(strategies, weights, q, vecs, budget * 2, 1,
                         {[i \in Indices(vecs) |-> 0]})
    IN  UNION {IF t.kind = "raised"
               THEN {t}
               ELSE {Returned(r) : r \in TopDescending(Indices(vecs), t.value, budget)} :
               t \in tallies}

\* select without the test "if not chunk_vecs": the reductions of the
\* strategies (np.max, np.percentile) raise on an empty array.
AdvancedSelectUnguarded(cfg, q, vecs, budget) ==
    IF vecs = <<>>
    THEN {Raised("ValueError: zero-size array to reduction operation")}
    ELSE LET b == Min(budget, Len(vecs))
         IN  IF cfg.strategy = "ensemble"
             THEN SelectEnsemble(cfg, q, vecs, b)
             ELSE StrategyOutcomes(cfg, q, vecs, b)

\* AdvancedSensor.select
AdvancedSelect(cfg, q, vecs, budget) ==
    IF vecs = <<>>
    THEN {Returned(<<>>)}
    ELSE LET b == Min(budget, Len(vecs))
         IN  IF cfg.strategy = "ensemble"
             THEN SelectEnsemble(cfg, q, vecs, b)
             ELSE StrategyOutcomes(cfg, q, vecs, b)

\* Whether a select call with outcome `out` drew from np.random: the call
\* np.random.choice of _select_uncertainty, reached by the Uncertainty
\* strategy and by the Ensemble when ensemble_weights is given.  choice
\* checks p before it draws and draws nothing for size 0.
ConsumesEntropy(cfg, vecs, budget, out) ==
    /\ vecs # <<>>
    /\ Min(budget, Len(vecs)) >= 1
    /\ \/ cfg.strategy = "uncertainty" /\ out.kind = "returned"
       \/ cfg.strategy = "ensemble" /\ cfg.ensemble_weights # None

(***************************************************************************)
(* Fragment (fragment.py) and its serializers (serializer_json.py,         *)
(* serializer_msgpack.py, serializer_pickle.py, serializer_unified.py,     *)
(* serializer_vector.py).                                                  *)
(*                                                                         *)
(* Representation.  A Fragment, and the dict that to_dict makes of it, is  *)
(* a function from field names to values; a dict from which a key is       *)
(* missing is a function on fewer names, and a CustomFragment is a         *)
(* function that has custom_field as well.  Metadata is a set of <<key,    *)
(* value>> pairs with string keys; a value is a str, a tuple, a list or a  *)
(* set, of which json and msgpack carry str and list unchanged, give a     *)
(* tuple back as a list and refuse a set.                                  *)
(*                                                                         *)
(* A list of floats is a record: `dir` holds integers;                     *)
(* with unit = FALSE the list is exactly dir (<<>> is the empty            *)
(* list), with unit = TRUE it is the list of doubles that dividing dir by  *)
(* its norm gives, moved on by `ulps` further normalisations.  The doubles *)
(* are those of IEEE-754 arithmetic: [3, 4] / 5.0 is [0.6, 0.8], whose     *)
(* norm is 1.0; [1, 1] / 1.4142135623730951 is [0.7071067811865475] * 2,   *)
(* whose norm is 0.9999999999999999, and dividing by that norm gives       *)
(* [0.7071067811865476] * 2, whose norm is 1.0.                            *)
(***************************************************************************)

FieldNames == {"text", "embedding", "metadata", "fragment_id", "parent_doc_id"}

\* The fields of Fragment that have no default value.
Required == {"text", "embedding", "metadata", "fragment_id"}

\* The class of an object: the objects with a custom_field are the
\* CustomFragments.
ClassOf(f) == IF "custom_field" \in DOMAIN f THEN "CustomFragment" ELSE "Fragment"

\* The values of metadata (Dict[str, Any]): a "str", a "tuple", a "list"
\* or a "set", each given by its type and its items.  A metadata dict is a
\* set of <<key, value>> pairs.
Value(type, items) == [type |-> type, items |-> items]

\* A str of 101 characters.
LongField == "x * 101"

\* str.strip() on the texts of the model: "", " " and words without blanks
Strip(s) == IF s = " " THEN "" ELSE s

Exact(d) == [dir |-> d, unit |-> FALSE, ulps |-> 0]

RECURSIVE GCD(_, _)
GCD(a, b) == IF b = 0 THEN a ELSE GCD(b, a % b)

\* The direction of a non-zero vector of non-negative integers.
Primitive(d) ==
    LET g == GCD(d[1], d[2])
    IN  <<d[1] \div g, d[2] \div g>>

\* How many times dividing the doubles of this direction by their norm
\* changes them again, after the first division.
Drift(p) == IF p = <<1, 1>> THEN 1 ELSE 0

\* JSONFragmentSerializer._normalize: arr / norm when norm > 0.
Normalize(e) ==
    IF e.unit
    THEN [e EXCEPT !.ulps = Min(e.ulps + 1, Drift(e.dir))]
    ELSE IF \A c \in 1..Len(e.dir) : e.dir[c] = 0
         THEN e
         ELSE LET p == Primitive(e.dir)
              IN  IF p \in {<<1, 0>>, <<0, 1>>}
                  THEN Exact(p)
                  ELSE [dir |-> p, unit |-> TRUE, ulps |-> 0]

\* __post_init__ without the test of the embedding.
PostInitLax(f) ==
    IF Strip(f.text) = ""
    THEN Raised("ValueError: Fragment text cannot be empty.")
    ELSE IF f.fragment_id = ""
         THEN Raised("ValueError: Fragment ID cannot be empty.")
         ELSE Returned(f)

\* Fragment.__post_init__, which the generated __init__ runs last, and
\* CustomFragment.__post_init__, which runs it first and then tests
\* custom_field.
PostInit(f) ==
    IF Strip(f.text) = ""
    THEN Raised("ValueError: Fragment text cannot be empty.")
    ELSE IF Len(f.embedding.dir) = 0
         THEN Raised("ValueError: Fragment embedding cannot be empty.")
         ELSE IF f.fragment_id = ""
              THEN Raised("ValueError: Fragment ID cannot be empty.")
              ELSE IF /\ ClassOf(f) = "CustomFragment"
                      /\ f.custom_field # None
                      /\ f.custom_field[1] = LongField
                   THEN Raised("ValueError: Custom field too long.")
                   ELSE Returned(f)

\* Fragment.to_dict: asdict(self) has one entry per dataclass field of the
\* object's class, custom_field of a CustomFragment included, with copies
\* of the values (a tuple stays a tuple).
ToDict(f) == [name \in DOMAIN f |-> f[name]]

\* Fragment.from_dict: cls(**data) with cls = Fragment, as the decoders
\* call it.  A key that is no parameter of Fragment.__init__, and a missing
\* argument without default, are TypeErrors of the call; parent_doc_id
\* defaults to None.
FromDict(data) ==
    IF ~(DOMAIN data \subseteq FieldNames)
    THEN Raised("TypeError: unexpected keyword argument")
    ELSE IF ~(Required \subseteq DOMAIN data)
         THEN Raised("TypeError: missing required argument")
         ELSE PostInit([name \in FieldNames |->
                          IF name \in DOMAIN data THEN data[name] ELSE None])

\* [Fragment.from_dict(item) for item in data]: the first item that raises
\* ends the comprehension.
FromDicts(items) ==
    LET outs == [j \in 1..Len(items) |-> FromDict(items[j])]
        bad == {j \in 1..Len(items) : outs[j].kind = "raised"}
    IN  IF bad # {}
        THEN outs[CHOOSE j \in bad : \A other \in bad : j <= other]
        ELSE Returned([j \in 1..Len(items) |-> outs[j].value])

\* The data a serializer wrote: the format, whether it holds a list, and
\* the items.  json.dumps and msgpack.packb write the dicts; pickle.dumps
\* writes each object's class and __dict__.
Wire(format, batch, items) == [format |-> format, batch |-> batch, items |-> items]

\* json.dumps and msgpack.packb refuse a set (TypeError).
CanPack(data) == \A kv \in data["metadata"] : kv[2].type # "set"

\* What json.loads / msgpack.unpackb give back for a written value: a
\* tuple was written as an array and comes back as a list; str and list
\* come back as they were.  Floats, str and None are carried exactly.
Unpacked(v) == IF v.type = "tuple" THEN Value("list", v.items) ELSE v

\* A dict as it is read back from JSON or msgpack data.
PackItem(data) ==
    [data EXCEPT !["metadata"] = {<<kv[1], Unpacked(kv[2])>> : kv \in @}]

\* The dict JSONFragmentSerializer writes for one fragment.
JSONItem(normalize_vectors, f) ==
    LET data == ToDict(f)
    IN  IF normalize_vectors /\ Len(data["embedding"].dir) > 0
        THEN [data EXCEPT !["embedding"] = Normalize(@)]
        ELSE data

\* The serializers taken one by one.  ser is [class, normalize_vectors].
JSONSerializer(normalize_vectors) ==
    [class |-> "JSONFragmentSerializer", normalize_vectors |-> normalize_vectors]

MsgPackSerializer == [class |-> "MsgPackSerializer", normalize_vectors |-> FALSE]

PickleSerializer == [class |-> "PickleSerializer", normalize_vectors |-> FALSE]

Serializers == {JSONSerializer(TRUE), JSONSerializer(FALSE), MsgPackSerializer,
                PickleSerializer}

FormatOf(ser) ==
    IF ser.class = "JSONFragmentSerializer" THEN "json"
    ELSE IF ser.class = "MsgPackSerializer" THEN "msgpack"
    ELSE "pickle"

\* json.dumps(data) / msgpack.packb(data) for a list of dicts, resp.
\* pickle.dumps for a list of objects, which keeps every value and the
\* class.
Dumps(ser, batch, frags) ==
    IF ser.class = "PickleSerializer"
    THEN Returned(Wire("pickle", batch, frags))
    ELSE LET data == [j \in 1..Len(frags) |->
                        IF ser.class = "JSONFragmentSerializer"
                        THEN JSONItem(ser.normalize_vectors, frags[j])
                        ELSE ToDict(frags[j])]
         IN  IF \E j \in 1..Len(data) : ~CanPack(data[j])
             THEN Raised("TypeError: cannot serialize")
             ELSE Returned(Wire(FormatOf(ser), batch,
                                [j \in 1..Len(data) |-> PackItem(data[j])]))

\* ser.serialize_fragments(frags)
SerializeFragments(ser, frags) == Dumps(ser, TRUE, frags)

\* ser.serialize_fragment(fragment)
SerializeFragment(ser, f) == Dumps(ser, FALSE, <<f>>)

\* ser.deserialize_fragments(data) / ser.deserialize_fragment(data), for
\* data of the serializer's own format.  pickle.loads gives back the
\* objects with the class and the __dict__ that were written; no __init__
\* runs.  The JSON and msgpack decoders rebuild each dict with
\* Fragment.from_dict.
Deserialize(w) ==
    IF w.format = "pickle"
    THEN Returned(IF w.batch THEN w.items ELSE w.items[1])
    ELSE IF w.batch THEN FromDicts(w.items) ELSE FromDict(w.items[1])

SUPPORTED_FORMATS == {"json", "msgpack", "pickle"}

\* The tags a caller passes: the three formats, an unknown name, the empty
\* string.
FormatTags == SUPPORTED_FORMATS \cup {"xml", ""}

\* format or self.default_format
OrDefault(format, default_format) ==
    IF format = None \/ format = Some("") THEN default_format ELSE format[1]

\* UnifiedSerializer.serialize / deserialize: the format the call is
\* dispatched to, or the ValueError of the last line.
SerializerFor(format, default_format) ==
    LET fmt == OrDefault(format, default_format)
    IN  IF fmt \in SUPPORTED_FORMATS
        THEN Returned(fmt)
        ELSE Raised("ValueError: Unsupported format")

\* The serializer object a facade holds for a format: json_ser is
\* JSONFragmentSerializer(), which normalises.
Held(fmt) ==
    IF fmt = "json" THEN JSONSerializer(TRUE)
    ELSE IF fmt = "msgpack" THEN MsgPackSerializer
    ELSE PickleSerializer

\* UnifiedSerializer(default_format): the ValueError of __init__, or the
\* facade.
UnifiedInit(default_format) ==
    IF default_format \notin SUPPORTED_FORMATS
    THEN Raised("ValueError: Unsupported format (init)")
    ELSE Returned(default_format)

\* The facades: f is [class, default_format]; VectorAwareSerializer hands
\* "json" to its own JSONFragmentSerializer(normalize_vectors=True) and
\* everything else to its UnifiedSerializer.
FacadeDispatch(f, format) ==
    IF UnifiedInit(f.default_format).kind = "raised"
    THEN UnifiedInit(f.default_format)
    ELSE IF f.class = "VectorAwareSerializer" /\ format = Some("json")
         THEN Returned("json")
         ELSE SerializerFor(format, f.default_format)

Facades == {[class |-> c, default_format |-> d] :
              c \in {"UnifiedSerializer", "VectorAwareSerializer"}, d \in FormatTags}

FormatArgs == {None} \cup {Some(t) : t \in FormatTags}

\* The arguments of Fragment(...) and CustomFragment(...) that the model
\* tries: fragments that differ in every field, with metadata values of
\* every type, one of them a CustomFragment; and one of them with one field
\* emptied, resp. with a custom_field that is too long.
BaseArgs ==
    [text |-> "a", embedding |-> Exact(<<3, 4>>), metadata |-> {},
     fragment_id |-> "f1", parent_doc_id |-> None]

CustomArgs ==
    [text |-> "a", embedding |-> Exact(<<0, 2>>), metadata |-> {},
     fragment_id |-> "f1", parent_doc_id |-> Some("d"), custom_field |-> Some("c")]

FragmentArgs ==
    {BaseArgs,
     [BaseArgs EXCEPT !.embedding = Exact(<<1, 1>>),
                      !.metadata = {<<"source", Value("str", <<"test">>)>>},
                      !.fragment_id = "f2", !.parent_doc_id = Some("d")],
     [BaseArgs EXCEPT !.embedding = Exact(<<0, 0>>),
                      !.metadata = {<<"tags", Value("tuple", <<"x">>)>>},
                      !.fragment_id = "f3"],
     [BaseArgs EXCEPT !.metadata = {<<"seen", Value("set", <<"x">>)>>},
                      !.fragment_id = "f4"],
     CustomArgs,
     [BaseArgs EXCEPT !.text = ""],
     [BaseArgs EXCEPT !.text = " "],
     [BaseArgs EXCEPT !.embedding = Exact(<<>>)],
     [BaseArgs EXCEPT !.fragment_id = ""],
     [CustomArgs EXCEPT !.custom_field = Some(LongField)]}

InitFragments ==
    /\ fragments = <<>>
    /\ wire = None
    /\ serCall = None
    /\ serResult = None

\* Fragment(text, embedding, metadata, fragment_id, parent_doc_id); the
\* caller appends the object to its list when there is one.
NewFragment(args) ==
    /\ wire = None
    /\ Len(fragments) < MaxFrags
    /\ serCall' = Some([op |-> "Fragment", by |-> ClassOf(args), input |-> args])
    /\ serResult' = Some(PostInit(args))
    /\ fragments' = IF PostInit(args).kind = "returned"
                    THEN Append(fragments, args)
                    ELSE fragments
    /\ UNCHANGED <<wire, sensorVars, moduleVars, forwardVars, chunkVars, storeVars,
                   randomVars>>

\* ser.serialize_fragments(fragments)
SerializeBatch(ser) ==
    /\ wire = None
    /\ LET out == SerializeFragments(ser, fragments)
       IN  /\ wire' = IF out.kind = "returned" THEN Some(out.value) ELSE wire
           /\ serResult' = Some(out)
    /\ serCall' = Some([op |-> "serialize_fragments", by |-> ser, input |-> fragments])
    /\ UNCHANGED <<fragments, sensorVars, moduleVars, forwardVars, chunkVars,
                   storeVars, randomVars>>

\* ser.serialize_fragment(fragments[0])
SerializeOne(ser) ==
    /\ wire = None
    /\ fragments # <<>>
    /\ LET out == SerializeFragment(ser, fragments[1])
       IN  /\ wire' = IF out.kind = "returned" THEN Some(out.value) ELSE wire
           /\ serResult' = Some(out)
    /\ serCall' = Some([op |-> "serialize_fragment", by |-> ser, input |-> fragments[1]])
    /\ UNCHANGED <<fragments, sensorVars, moduleVars, forwardVars, chunkVars,
                   storeVars, randomVars>>

\* The data reaches the reader with a field of one item missing.
LoseField(j, name) ==
    /\ wire # None
    /\ j \in 1..Len(wire[1].items)
    /\ \A k \in 1..Len(wire[1].items) : FieldNames \subseteq DOMAIN wire[1].items[k]
    /\ wire' = Some([wire[1] EXCEPT !.items[j] =
                       [n \in DOMAIN @ \ {name} |-> @[n]]])
    /\ UNCHANGED <<fragments, serCall, serResult, sensorVars, moduleVars, forwardVars,
                   chunkVars, storeVars, randomVars>>

\* ser.deserialize_fragments(data) or ser.deserialize_fragment(data), by a
\* serializer of the format the data was written in.
DeserializeCall(ser) ==
    /\ wire # None
    /\ FormatOf(ser) = wire[1].format
    /\ serCall' = Some([op |-> IF wire[1].batch THEN "deserialize_fragments"
                                ELSE "deserialize_fragment",
                        by |-> ser, input |-> wire[1]])
    /\ serResult' = Some(Deserialize(wire[1]))
    /\ UNCHANGED <<fragments, wire, sensorVars, moduleVars, forwardVars, chunkVars,
                   storeVars, randomVars>>

\* Facade(default_format).serialize(fragments, format) for UnifiedSerializer,
\* .serialize_fragments(fragments, format) for VectorAwareSerializer.
FacadeSerialize(f, format) ==
    /\ wire = None
    /\ serCall' = Some([op |-> "serialize", by |-> f, format |-> format,
                        input |-> fragments])
    /\ LET to == FacadeDispatch(f, format)
       IN  IF to.kind = "raised"
           THEN /\ serResult' = Some(to)
                /\ wire' = wire
           ELSE LET out == SerializeFragments(Held(to.value), fragments)
                IN  /\ serResult' = Some(out)
                    /\ wire' = IF out.kind = "returned" THEN Some(out.value) ELSE wire
    /\ UNCHANGED <<fragments, sensorVars, moduleVars, forwardVars, chunkVars,
                   storeVars, randomVars>>

\* Facade(default_format).deserialize(data, format), resp.
\* .deserialize_fragments(data, format), on a batch; when the call reaches a
\* codec it is the one that wrote the data.
FacadeDeserialize(f, format) ==
    /\ wire # None
    /\ wire[1].batch
    /\ LET to == FacadeDispatch(f, format)
       IN  /\ to.kind = "returned" => to.value = wire[1].format
           /\ serResult' = Some(IF to.kind = "raised" THEN to ELSE Deserialize(wire[1]))
    /\ serCall' = Some([op |-> "deserialize", by |-> f, format |-> format,
                        input |-> wire[1]])
    /\ UNCHANGED <<fragments, wire, sensorVars, moduleVars, forwardVars, chunkVars,
                   storeVars, randomVars>>

\* The caller goes on with the fragments it has decoded.
Reload ==
    /\ wire # None
    /\ serCall # None
    /\ serCall[1].op \in {"deserialize", "deserialize_fragments", "deserialize_fragment"}
    /\ serResult[1].kind = "returned"
    /\ LET got == IF serCall[1].op = "deserialize_fragment"
                  THEN <<serResult[1].value>>
                  ELSE serResult[1].value
       IN  /\ \A j \in 1..Len(got) : FieldNames \subseteq DOMAIN got[j]
           /\ fragments' = got
    /\ wire' = None
    /\ UNCHANGED <<serCall, serResult, sensorVars, moduleVars, forwardVars, chunkVars,
                   storeVars, randomVars>>

\* The caller drops the data it holds.
Discard ==
    /\ wire # None
    /\ wire' = None
    /\ UNCHANGED <<fragments, serCall, serResult, sensorVars, moduleVars, forwardVars,
                   chunkVars, storeVars, randomVars>>

\* Fragments and the serializers used directly.
NextFragments ==
    \/ \E args \in FragmentArgs : NewFragment(args)
    \/ \E ser \in Serializers : SerializeBatch(ser)
    \/ \E ser \in Serializers : SerializeOne(ser)
    \/ \E j \in 1..MaxFrags, name \in FieldNames : LoseField(j, name)
    \/ \E ser \in Serializers : DeserializeCall(ser)
    \/ Reload
    \/ Discard

\* Fragments and the serializers used through a facade.
NextFacade ==
    \/ \E args \in FragmentArgs : NewFragment(args)
    \/ \E f \in Facades, format \in FormatArgs : FacadeSerialize(f, format)
    \/ \E f \in Facades, format \in FormatArgs : FacadeDeserialize(f, format)
    \/ Discard

(***************************************************************************)
(* chunk_text (data_ingest.py; examples/quickstart.py holds a copy).  A    *)
(* str is a sequence of characters; " " is the only whitespace.            *)
(***************************************************************************)

Chars == {"a", " "}

\* The texts of at most MaxLen characters.
Texts == UNION {[1..n -> Chars] : n \in 0..MaxLen}

\* text[i:j] for 0 <= i <= j <= len(text)
Slice(text, i, j) == [c \in 1..(j - i) |-> text[i + c]]

\* str.strip() of a sequence of characters
RECURSIVE StripSeq(_)
StripSeq(s) ==
    IF s = <<>> THEN s
    ELSE IF s[1] = " " THEN StripSeq(Tail(s))
    ELSE IF s[Len(s)] = " " THEN StripSeq(SubSeq(s, 1, Len(s) - 1))
    ELSE s

InitChunk ==
    /\ ct_pc = "idle"
    /\ ct_text = <<>>
    /\ ct_max_chars = 0
    /\ ct_overlap = 0
    /\ ct_i = 0
    /\ ct_chunks = <<>>

\* chunk_text(text, max_chars, overlap) up to the loop: max_chars <= 0
\* returns [text] at once.
ChunkText(text, max_chars, overlap) ==
    /\ ct_pc = "idle"
    /\ ct_text' = text
    /\ ct_max_chars' = max_chars
    /\ ct_overlap' = overlap
    /\ ct_i' = 0
    /\ IF max_chars <= 0
       THEN /\ ct_chunks' = <<text>>
            /\ ct_pc' = "returned"
       ELSE /\ ct_chunks' = <<>>
            /\ ct_pc' = "loop"
    /\ UNCHANGED <<sensorVars, moduleVars, forwardVars, fragmentVars, storeVars,
                   randomVars>>

\* The value of i at the end of one pass of the loop body that started at i.
NextStart(i, n, max_chars, overlap) ==
    LET j == Min(n, i + max_chars)
        k == IF j < n THEN j - overlap ELSE j
    IN  IF k < 0 THEN 0 ELSE k

\* One pass of the body of "while i < n".  The list of chunks is followed
\* up to MaxChunks entries.
ChunkLoop ==
    /\ ct_pc = "loop"
    /\ ct_i < Len(ct_text)
    /\ LET n == Len(ct_text)
           j == Min(n, ct_i + ct_max_chars)
           chunk == Slice(ct_text, ct_i, j)
       IN  /\ StripSeq(chunk) # <<>> => Len(ct_chunks) < MaxChunks
           /\ ct_chunks' = IF StripSeq(chunk) # <<>>
                           THEN Append(ct_chunks, StripSeq(chunk))
                           ELSE ct_chunks
           /\ ct_i' = NextStart(ct_i, n, ct_max_chars, ct_overlap)
    /\ UNCHANGED <<ct_pc, ct_text, ct_max_chars, ct_overlap, sensorVars, moduleVars,
                   forwardVars, fragmentVars, storeVars, randomVars>>

\* The loop test fails: return chunks.
ChunkReturn ==
    /\ ct_pc = "loop"
    /\ ct_i >= Len(ct_text)
    /\ ct_pc' = "returned"
    /\ UNCHANGED <<ct_text, ct_max_chars, ct_overlap, ct_i, ct_chunks, sensorVars,
                   moduleVars, forwardVars, fragmentVars, storeVars, randomVars>>

\* The caller takes the list.
ChunkTaken ==
    /\ ct_pc = "returned"
    /\ ct_pc' = "idle"
    /\ ct_text' = <<>>
    /\ ct_max_chars' = 0
    /\ ct_overlap' = 0
    /\ ct_i' = 0
    /\ ct_chunks' = <<>>
    /\ UNCHANGED <<sensorVars, moduleVars, forwardVars, fragmentVars, storeVars,
                   randomVars>>

\* A caller calls chunk_text with some arguments.
ChunkCall ==
    /\ ct_pc = "idle"
    /\ \E text \in Texts, max_chars \in 0..MaxLen, overlap \in 0..MaxLen :
          ChunkText(text, max_chars, overlap)

NextChunk ==
    \/ ChunkCall
    \/ ChunkLoop
    \/ ChunkReturn
    \/ ChunkTaken

(***************************************************************************)
(* InMemoryStore (memory/memory_solution_in_refrag/memory_store.py), used  *)
(* by several threads.  A MemoryRecord is [key, type, session_id, score]:  *)
(* key names the save call that stores it (the thread, and the number of   *)
(* saves that had returned when the call began); score is                  *)
(* text.lower().count(q) for the one query the readers search for.         *)
(***************************************************************************)

Threads == 1..MaxThreads

RecordInputs ==
    {[type |-> "qna", session_id |-> "s1", score |-> 1],
     [type |-> "signal", session_id |-> "s1", score |-> 2]}

\* The read calls the threads make: get_recent_by_type(session_id, type_,
\* limit) and search(session_id, query, k, type_filter).
ReadInputs ==
    {[op |-> "get_recent_by_type", session_id |-> "s1", type |-> Some("qna"), limit |-> 1],
     [op |-> "search", session_id |-> "s1", type |-> None, limit |-> 5]}

\* hits.sort(key=score, reverse=True): stable, equal scores keep their order
RECURSIVE SortByScore(_)
SortByScore(hits) ==
    IF hits = <<>> THEN <<>>
    ELSE LET best == CHOOSE j \in 1..Len(hits) :
                        /\ \A k \in 1..Len(hits) : hits[k].score <= hits[j].score
                        /\ \A k \in 1..(j - 1) : hits[k].score < hits[j].score
         IN  <<hits[best]>>
             \o SortByScore([k \in 1..(Len(hits) - 1) |->
                               IF k < best THEN hits[k] ELSE hits[k + 1]])

\* The list a read call builds from self._records, before it is cut.
Collected(call, recs) ==
    IF call.op = "get_recent_by_type"
    THEN SelectSeq(Reverse(recs),
                   LAMBDA r : r.session_id = call.session_id /\ r.type = call.type[1])
    ELSE SortByScore(SelectSeq(recs,
                   LAMBDA r : /\ r.session_id = call.session_id
                              /\ call.type # None => r.type = call.type[1]
                              /\ r.score > 0))

IdleThread == [pc |-> "idle", call |-> None, local |-> None]

InitStore ==
    /\ records = <<>>
    /\ lock = None
    /\ thread = [t \in Threads |-> IdleThread]
    /\ saved = <<>>

\* "with self._lock" entered without waiting for the lock.
CanAcquireAlways(t) == TRUE

\* "with self._lock": the thread goes on when nobody holds the lock.
CanAcquire(t) == lock = None

\* Thread t calls store.save(record).
SaveCall(t, r) ==
    /\ thread[t].pc = "idle"
    /\ Len(records) + Cardinality({u \in Threads : thread[u].pc = "save_lock"}) < MaxRecords
    /\ thread' = [thread EXCEPT ![t] =
                    [pc |-> "save_lock",
                     call |-> Some([op |-> "save",
                                    record |-> [key |-> <<t, Len(saved)>>, type |-> r.type,
                                                session_id |-> r.session_id,
                                                score |-> r.score]]),
                     local |-> None]]
    /\ UNCHANGED <<records, lock, saved, sensorVars, moduleVars, forwardVars,
                   fragmentVars, chunkVars, randomVars>>

\* Thread t calls get_recent_by_type or search.
ReadCall(t, call) ==
    /\ thread[t].pc = "idle"
    /\ thread' = [thread EXCEPT ![t] =
                    [pc |-> "read_lock", call |-> Some(call), local |-> None]]
    /\ UNCHANGED <<records, lock, saved, sensorVars, moduleVars, forwardVars,
                   fragmentVars, chunkVars, randomVars>>

\* with self._lock:
Acquire(t) ==
    /\ thread[t].pc \in {"save_lock", "read_lock"}
    /\ CanAcquire(t)
    /\ lock' = Some(t)
    /\ thread' = [thread EXCEPT ![t].pc =
                    IF thread[t].pc = "save_lock" THEN "save_append" ELSE "read_collect"]
    /\ UNCHANGED <<records, saved, sensorVars, moduleVars, forwardVars, fragmentVars,
                   chunkVars, randomVars>>

\* self._records.append(record)
SaveAppend(t) ==
    /\ thread[t].pc = "save_append"
    /\ records' = Append(records, thread[t].call[1].record)
    /\ thread' = [thread EXCEPT ![t].pc = "save_return"]
    /\ UNCHANGED <<lock, saved, sensorVars, moduleVars, forwardVars, fragmentVars,
                   chunkVars, randomVars>>

\* return str(len(self._records) - 1), leaving the with block
SaveReturn(t) ==
    /\ thread[t].pc = "save_return"
    /\ saved' = Append(saved, [record |-> thread[t].call[1].record,
                               id |-> Len(records) - 1])
    /\ lock' = None
    /\ thread' = [thread EXCEPT ![t] = IdleThread]
    /\ UNCHANGED <<records, sensorVars, moduleVars, forwardVars, fragmentVars,
                   chunkVars, randomVars>>

\* items = [r for r in reversed(self._records) if ...], resp. the loop
\* over self._records and hits.sort
ReadCollect(t) ==
    /\ thread[t].pc = "read_collect"
    /\ thread' = [thread EXCEPT ![t].pc = "read_return",
                                ![t].local = Some(Collected(thread[t].call[1], records))]
    /\ UNCHANGED <<records, lock, saved, sensorVars, moduleVars, forwardVars,
                   fragmentVars, chunkVars, randomVars>>

\* return items[:limit], resp. [r for _, r in hits[:k]], leaving the with
\* block; the caller takes the list
ReadReturn(t) ==
    /\ thread[t].pc = "read_return"
    /\ lock' = None
    /\ thread' = [thread EXCEPT ![t] = IdleThread]
    /\ UNCHANGED <<records, saved, sensorVars, moduleVars, forwardVars, fragmentVars,
                   chunkVars, randomVars>>

NextStore ==
    \/ \E t \in Threads, r \in RecordInputs : SaveCall(t, r)
    \/ \E t \in Threads, call \in ReadInputs : ReadCall(t, call)
    \/ \E t \in Threads : Acquire(t)
    \/ \E t \in Threads : SaveAppend(t)
    \/ \E t \in Threads : SaveReturn(t)
    \/ \E t \in Threads : ReadCollect(t)
    \/ \E t \in Threads : ReadReturn(t)

(***************************************************************************)
(* Several threads call select with the Uncertainty strategy.  Each call   *)
(* reaches np.random.choice(n, size=budget, replace=False, p=probs) once   *)
(* (_select_uncertainty); nothing in AdvancedSensor guards the call.       *)
(* choice samples without replacement in rounds: a round draws             *)
(* size - n_uniq doubles from the global RandomState and keeps the new     *)
(* distinct indices, at least one, until n_uniq = size.  The RandomState   *)
(* locks one round, not the call, and the interpreter may switch threads   *)
(* between rounds.                                                         *)
(***************************************************************************)

IdleChoice == [pc |-> "idle", call |-> 0, size |-> 0, n_uniq |-> 0]

InitRandom ==
    /\ uThread = [t \in Threads |-> IdleChoice]
    /\ rand_calls = <<>>

\* Thread t: sensor.select(...) arrives at np.random.choice with
\* size = budget >= 1 and enough positive probabilities.
ChoiceCall(t, size) ==
    /\ uThread[t].pc = "idle"
    /\ np_random < MaxDraws
    /\ np_random' = np_random + 1
    /\ uThread' = [uThread EXCEPT ![t] =
                     [pc |-> "choice", call |-> np_random + 1, size |-> size, n_uniq |-> 0]]
    /\ UNCHANGED <<rand_calls, sPc, requested, config, callArgs, callResult, moduleVars,
                   forwardVars, fragmentVars, chunkVars, storeVars>>

\* One round of the loop "while n_uniq < size" of choice.
ChoiceRound(t, found) ==
    /\ uThread[t].pc = "choice"
    /\ uThread[t].n_uniq < uThread[t].size
    /\ found \in 1..(uThread[t].size - uThread[t].n_uniq)
    /\ rand_calls' = Append(rand_calls, uThread[t].call)
    /\ uThread' = [uThread EXCEPT ![t].n_uniq = @ + found]
    /\ UNCHANGED <<sensorVars, moduleVars, forwardVars, fragmentVars, chunkVars,
                   storeVars>>

\* choice returns; select returns selected.tolist().
ChoiceReturn(t) ==
    /\ uThread[t].pc = "choice"
    /\ uThread[t].n_uniq = uThread[t].size
    /\ uThread' = [uThread EXCEPT ![t] = IdleChoice]
    /\ UNCHANGED <<rand_calls, sensorVars, moduleVars, forwardVars, fragmentVars,
                   chunkVars, storeVars>>

NextRandom ==
    \/ \E t \in Threads, size \in 1..MaxBudget : ChoiceCall(t, size)
    \/ \E t \in Threads, found \in 1..MaxBudget : ChoiceRound(t, found)
    \/ \E t \in Threads : ChoiceReturn(t)

\* Nothing outside the sensor and the module is in use.
InitLib ==
    /\ InitFragments
    /\ InitChunk
    /\ InitStore
    /\ InitRandom

(***************************************************************************)
(* The life of one AdvancedSensor: construction (with validation), then    *)
(* select calls.                                                           *)
(***************************************************************************)

\* The configurations handed to the constructor: for every strategy the
\* parameter it reads, with values inside, on the edge of and outside the
\* valid range.
ConfigInputs ==
    {[DefaultConfig EXCEPT !.min_score = m] : m \in {None, Some(1), Some(4)}}
    \cup {[DefaultConfig EXCEPT !.strategy = "mmr", !.diversity_lambda = l] :
            l \in {-1, 0, 2, 3, 4, 5}}
    \cup {[DefaultConfig EXCEPT !.strategy = "uncertainty", !.temperature = t] :
            t \in {-1024, 0, 1, 1024}}
    \cup {[DefaultConfig EXCEPT !.strategy = "adaptive", !.adaptive_percentile = a] :
            a \in {-1, 0, 2, 3, 4, 5}}
    \cup {[DefaultConfig EXCEPT !.strategy = "ensemble", !.ensemble_weights = w] :
            w \in {None, Some(<<2, 2>>), Some(<<2, 1, 1>>), Some(<<>>)}}

InitSensor ==
    /\ sPc = "unbuilt"
    /\ requested = None
    /\ config = None
    /\ callArgs = None
    /\ callResult = None
    /\ np_random = 0

\* AdvancedSensor.__init__(config): self.config = config or SelectionConfig(),
\* then _validate_config, whose ValueError ends the construction.
Construct(arg) ==
    /\ sPc = "unbuilt"
    /\ requested' = Some(arg)
    /\ LET c == IF arg = None THEN DefaultConfig ELSE arg[1]
       IN  IF ValidateConfig(c)
           THEN /\ sPc' = "ready"
                /\ config' = Some(c)
           ELSE /\ sPc' = "ctor_raised"
                /\ config' = None
    /\ UNCHANGED <<callArgs, callResult, np_random, moduleVars, forwardVars, libVars>>

\* One call sensor.select(query_vec, chunk_vecs, budget).
Select(q, vecs, budget) ==
    /\ sPc = "ready"
    /\ \E out \in AdvancedSelect(config[1], q, vecs, budget) :
          /\ ConsumesEntropy(config[1], vecs, budget, out) => np_random < MaxDraws
          /\ callResult' = Some(out)
          /\ sPc' = IF out.kind = "returned" THEN "returned" ELSE "select_raised"
          /\ np_random' = IF ConsumesEntropy(config[1], vecs, budget, out)
                          THEN np_random + 1
                          ELSE np_random
    /\ callArgs' = Some([query_vec |-> q, chunk_vecs |-> vecs, budget |-> budget])
    /\ UNCHANGED <<requested, config, moduleVars, forwardVars, libVars>>

\* A caller that holds a constructed sensor calls select with some
\* arguments.
SelectCall ==
    /\ sPc = "ready"
    /\ \E q \in QueryVecs, vecs \in ChunkLists, budget \in 0..MaxBudget :
          Select(q, vecs, budget)

\* The caller takes the result (or the exception); the sensor is ready again.
SelectDone ==
    /\ sPc \in {"returned", "select_raised"}
    /\ sPc' = "ready"
    /\ callArgs' = None
    /\ callResult' = None
    /\ UNCHANGED <<requested, config, np_random, moduleVars, forwardVars, libVars>>

NextSensor ==
    \/ \E arg \in {None} \cup {Some(c) : c \in ConfigInputs} : Construct(arg)
    \/ SelectCall
    \/ SelectDone

(***************************************************************************)
(* Sensor (sensor.py).                                                     *)
(***************************************************************************)

\* sorted(S, key=score, reverse=True): Python's sort is stable, also when
\* reversed, so equal scores keep their ascending index order.
RECURSIVE SortedDescending(_, _)
SortedDescending(S, sc) ==
    IF S = {} THEN <<>>
    ELSE LET first == ArgMax(S, sc)
         IN  <<first>> \o SortedDescending(S \ {first}, sc)

\* Sensor.select
BasicSelect(sn, q, vecs, b) ==
    IF sn.mode = "heuristic"
    THEN LET scores == ComputeSimilarities(q, vecs)
         IN  IF sn.threshold # None
             THEN LET filtered == {i \in Indices(vecs) : scores[i] >= sn.threshold[1]}
                  IN  {Returned(Take(SortedDescending(filtered, scores), b))}
             ELSE {Returned(Take(SortedDescending(Indices(vecs), scores), b))}
    ELSE IF sn.learned_weights = None
         THEN \* select calls itself with unchanged mode and weights
              {Raised("RecursionError")}
         ELSE LET w == sn.learned_weights[1]
                  scores == [i \in Indices(vecs) |->
                               Dot(<<w[1], w[2]>>, q) + Dot(<<w[3], w[4]>>, vecs[i + 1])]
              IN  {Returned(Take(SortedDescending(Indices(vecs), scores), b))}

BasicSensor(mode, threshold, learned_weights) ==
    [class |-> "Sensor", mode |-> mode, threshold |-> threshold,
     learned_weights |-> learned_weights, config |-> DefaultConfig]

AdvancedSensorOf(cfg) ==
    [class |-> "AdvancedSensor", mode |-> "heuristic", threshold |-> None,
     learned_weights |-> None, config |-> cfg]

\* self.sensor.select(qv, vectors, budget=self.budget) in forward.
SensorSelect(sn, q, vecs, b) ==
    IF sn.class = "AdvancedSensor"
    THEN AdvancedSelect(sn.config, q, vecs, b)
    ELSE BasicSelect(sn, q, vecs, b)

(***************************************************************************)
(* Python dicts and strings.  A metadata dict is a record: `keys` is the   *)
(* set of keys present, and a field holds the value of its key when the    *)
(* key is present.                                                         *)
(***************************************************************************)
Dict(keys, id, text, selected) ==
    [keys |-> keys, id |-> id, text |-> text, selected |-> selected]

\* d.setdefault("selected", v)
SetDefaultSelected(d, v) ==
    IF "selected" \in d.keys THEN d
    ELSE [d EXCEPT !.keys = @ \cup {"selected"}, !.selected = v]

\* d["selected"] = v
SetItemSelected(d, v) == [d EXCEPT !.keys = @ \cup {"selected"}, !.selected = v]

\* d.get("text", "")
GetText(d) == IF "text" \in d.keys THEN d.text ELSE ""

\* d.get("selected", False)
GetSelected(d) == IF "selected" \in d.keys THEN d.selected ELSE FALSE

\* str(b) for a bool, as an f-string formats it.
BoolStr(b) == IF b THEN "True" ELSE "False"

\* str(i) for a small index.
IntStr(i) == <<"0", "1", "2", "3", "4", "5", "6", "7", "8", "9">>[i + 1]

\* sep.join(parts)
RECURSIVE Join(_, _)
Join(sep, parts) ==
    IF parts = <<>> THEN ""
    ELSE IF Len(parts) = 1 THEN parts[1]
    ELSE parts[1] \o sep \o Join(sep, Tail(parts))

\* A reference not yet in use.
NewRef(h) == IF DOMAIN h = {} THEN 1 ELSE MaxOf(DOMAIN h) + 1

\* meta = m: no copy, the candidate's own dict.
DictAlias(h, ref) == [ref |-> ref, heap |-> h]

\* meta = dict(m): a new dict object with the entries of m.
DictCopy(h, ref) == [ref |-> NewRef(h), heap |-> h @@ (NewRef(h) :> h[ref])]

(***************************************************************************)
(* SimpleRetriever (retriever.py).                                         *)
(***************************************************************************)

\* embedder or (lambda text: self._rand_vec())
Embedders == {"rand_vec", "given"}

\* The calls of np.random.randn one call of self.embedder makes: _rand_vec
\* makes one; a given embedder (make_ollama_embedder) makes none.
EmbedderDraws(e) == IF e = "rand_vec" THEN 1 ELSE 0

\* SimpleRetriever.retrieve, given the vector the embedder returned.
SimpleRetrieve(corp, queryVec, kk) ==
    LET scores == [i \in Indices(corp) |-> Dot(corp[i + 1].vector, queryVec)]
        idxs == Take(SortedDescending(Indices(corp), scores), kk)
    IN  [j \in 1..Len(idxs) |-> corp[idxs[j] + 1]]

(***************************************************************************)
(* REFRAGModule.forward and REFRAGBenchmarkModule.forward.                 *)
(***************************************************************************)

\* The loop with the append made only for the selected candidates.
RECURSIVE AttachSelectedOnly(_, _, _, _, _)
AttachSelectedOnly(mod, h, metas, sel, i) ==
    IF i >= Len(metas)
    THEN [heap |-> h, list |-> <<>>]
    ELSE LET ref == NewRef(h)
             is_selected == i \in RangeOf(sel)
             h2 == h @@ (ref :> SetItemSelected(h[metas[i + 1]], is_selected))
             rest == AttachSelectedOnly(mod, h2, metas, sel, i + 1)
         IN  [heap |-> rest.heap,
              list |-> (IF is_selected THEN <<ref>> ELSE <<>>) \o rest.list]

\* The loop "for i, m in enumerate(metadata)": copy, annotate, append.
\* REFRAGModule annotates with setdefault, REFRAGBenchmarkModule by
\* assignment.  The result is the heap after the loop and the list built.
RECURSIVE AttachSelection(_, _, _, _, _)
AttachSelection(mod, h, metas, sel, i) ==
    IF i >= Len(metas)
    THEN [heap |-> h, list |-> <<>>]
    ELSE LET copy == DictCopy(h, metas[i + 1])
             is_selected == i \in RangeOf(sel)
             meta == IF mod = "REFRAGModule"
                     THEN SetDefaultSelected(copy.heap[copy.ref], is_selected)
                     ELSE SetItemSelected(copy.heap[copy.ref], is_selected)
             rest == AttachSelection(mod, [copy.heap EXCEPT ![copy.ref] = meta],
                                     metas, sel, i + 1)
         IN  [heap |-> rest.heap, list |-> <<copy.ref>> \o rest.list]

\* REFRAGModule: one line per passage, selected or not; p['text'] needs the key.
CoreContextLines(h, mws) ==
    [j \in 1..Len(mws) |->
        "Passage " \o IntStr(j - 1) \o ": " \o h[mws[j]].text
        \o " (selected: " \o BoolStr(GetSelected(h[mws[j]])) \o ")"]

\* REFRAGBenchmarkModule: the indices i of the loop over
\* enumerate(metadata_with_selection) that pass "if selected".
RECURSIVE BenchContextIndices(_, _, _)
BenchContextIndices(h, mws, i) ==
    IF i >= Len(mws) THEN <<>>
    ELSE (IF GetSelected(h[mws[i + 1]]) THEN <<i>> ELSE <<>>)
         \o BenchContextIndices(h, mws, i + 1)

\* REFRAGBenchmarkModule: context_parts, one line per passage whose copy
\* has a true `selected`, in the order of the passages.
BenchContextParts(h, mws) ==
    LET idxs == BenchContextIndices(h, mws, 0)
    IN  [j \in 1..Len(idxs) |->
            "Passage " \o IntStr(idxs[j]) \o ": " \o GetText(h[mws[idxs[j] + 1]])]

\* The prompt template of both modules.
BuildPrompt(ctx, q) ==
    "Use the following context to answer the query.\n\nContext:\n" \o ctx
    \o "\n\nQuery: " \o q \o "\n\nAnswer:"

\* REFRAGContext(...).  REFRAGModule's context has no sizes and no token
\* count: they are None there.
Context(q, vecs, mws, answer, token_usage, prompt_chars, context_chars) ==
    [query |-> q, chunk_vectors |-> vecs, chunk_metadata |-> mws, answer |-> answer,
     token_usage |-> token_usage, prompt_chars |-> prompt_chars,
     context_chars |-> context_chars]

\* What the generation backend can answer, and how it can fail.
LMResponses == {[text |-> "An answer.", total_tokens |-> 7]}
LMErrors == {"timeout"}

Queries == {"cats?", "dogs"}

\* SimpleRetriever's default corpus: the metadata holds an id only.
DefaultCorpus ==
    <<[text |-> "Doc A about cats.", vector |-> <<1, 0>>,
       metadata |-> Dict({"id"}, "a", "", FALSE)],
      [text |-> "Doc B about dogs.", vector |-> <<0, 1>>,
       metadata |-> Dict({"id"}, "b", "", FALSE)],
      [text |-> "Doc C about birds.", vector |-> <<1, 1>>,
       metadata |-> Dict({"id"}, "c", "", FALSE)]>>

\* A corpus as data_ingest builds it: the metadata repeats the text.
IngestedCorpus ==
    <<[text |-> "cats", vector |-> <<1, 1>>,
       metadata |-> Dict({"id", "text"}, "a", "cats", FALSE)],
      [text |-> "dogs", vector |-> <<2, 1>>,
       metadata |-> Dict({"id", "text"}, "b", "dogs", FALSE)],
      [text |-> "birds", vector |-> <<1, 0>>,
       metadata |-> Dict({"id", "text"}, "c", "birds", FALSE)]>>

\* A corpus whose stored metadata already has a `selected` entry.
AnnotatedCorpus ==
    <<[text |-> "cats", vector |-> <<1, 0>>,
       metadata |-> Dict({"id", "text", "selected"}, "a", "cats", FALSE)],
      [text |-> "dogs", vector |-> <<0, 1>>,
       metadata |-> Dict({"id", "text", "selected"}, "b", "dogs", TRUE)]>>

CorpusInputs == {DefaultCorpus, IngestedCorpus, AnnotatedCorpus, <<>>}

SensorInputs ==
    {BasicSensor("heuristic", None, None),
     BasicSensor("heuristic", Some(2), None),
     BasicSensor("learned", None, None),
     BasicSensor("learned", None, Some(<<0, 0, 0, 1>>)),
     AdvancedSensorOf([DefaultConfig EXCEPT !.strategy = "mmr"]),
     AdvancedSensorOf([DefaultConfig EXCEPT !.strategy = "adaptive"]),
     AdvancedSensorOf([DefaultConfig EXCEPT !.strategy = "uncertainty", !.temperature = 1])}

IdleLocals ==
    /\ pc = "idle"
    /\ query = ""
    /\ passages = <<>>
    /\ vectors = <<>>
    /\ metadata = <<>>
    /\ qv = None
    /\ selected_idxs = <<>>
    /\ metadata_with_selection = <<>>
    /\ context_str = ""
    /\ prompt = ""
    /\ result = None
    /\ error = None
    /\ calls = <<>>

\* No sensor under construction: the sensor variables of the other
\* specification stay as they are.
InitModule ==
    /\ InitSensor
    /\ module \in {"REFRAGModule", "REFRAGBenchmarkModule"}
    /\ self_lm \in {"None", "LM"}
    /\ self_k \in 0..MaxK
    /\ self_budget \in 0..MaxBudget
    /\ self_sensor \in SensorInputs
    /\ \E c \in CorpusInputs :
          /\ corpus = [j \in 1..Len(c) |->
                         [text |-> c[j].text, vector |-> c[j].vector, metadata |-> j]]
          /\ heap = [j \in 1..Len(c) |-> c[j].metadata]
    /\ embedder \in Embedders
    /\ heap0 = heap
    /\ IdleLocals
    /\ InitLib

\* module.forward(q) is called.
Forward(q) ==
    /\ pc = "idle"
    /\ UNCHANGED <<sensorVars, moduleVars, libVars>>
    /\ pc' = "retrieve"
    /\ query' = q
    /\ UNCHANGED <<heap, passages, vectors, metadata, qv, selected_idxs,
                   metadata_with_selection, context_str, prompt, result, error, calls>>

\* 1) passages = self.retriever.retrieve(query, k=self.k); vectors; metadata.
\* retrieve embeds the query first, which draws from np.random when the
\* embedder is the default one.
Retrieve ==
    /\ pc = "retrieve"
    /\ np_random + EmbedderDraws(embedder) <= MaxDraws
    /\ np_random' = np_random + EmbedderDraws(embedder)
    /\ UNCHANGED <<sPc, requested, config, callArgs, callResult, moduleVars, libVars>>
    /\ \E v \in QueryVecs :
          LET ps == SimpleRetrieve(corpus, v, self_k)
          IN  /\ passages' = ps
              /\ vectors' = [j \in 1..Len(ps) |-> ps[j].vector]
              /\ metadata' = [j \in 1..Len(ps) |-> ps[j].metadata]
    /\ calls' = Append(calls, "retriever.retrieve")
    /\ pc' = "embed"
    /\ UNCHANGED <<heap, query, qv, selected_idxs, metadata_with_selection,
                   context_str, prompt, result, error>>

\* A forward that catches the failure of retrieve and goes on with no
\* candidates.
RetrieveRaisesSwallowed ==
    /\ pc = "retrieve"
    /\ UNCHANGED <<sensorVars, moduleVars, libVars>>
    /\ calls' = Append(calls, "retriever.retrieve raised")
    /\ pc' = "embed"
    /\ UNCHANGED <<heap, query, passages, vectors, metadata, qv, selected_idxs,
                   metadata_with_selection, context_str, prompt, result, error>>

\* retrieve raises: forward has no handler.  Either the embedder raised (a
\* given embedder, or np.random.randn for an embed_dim it rejects, before
\* it draws), or np.dot raised on the vector the embedder had returned.
RetrieveRaises ==
    /\ pc = "retrieve"
    /\ \E drawn \in {0, EmbedderDraws(embedder)} :
          /\ np_random + drawn <= MaxDraws
          /\ np_random' = np_random + drawn
    /\ UNCHANGED <<sPc, requested, config, callArgs, callResult, moduleVars, libVars>>
    /\ calls' = Append(calls, "retriever.retrieve raised")
    /\ error' = Some("retriever.retrieve raised")
    /\ pc' = "raised"
    /\ UNCHANGED <<heap, query, passages, vectors, metadata, qv, selected_idxs,
                   metadata_with_selection, context_str, prompt, result>>

\* 2) qv = self.retriever.embed_query(query): return self.embedder(query)
EmbedQuery ==
    /\ pc = "embed"
    /\ np_random + EmbedderDraws(embedder) <= MaxDraws
    /\ np_random' = np_random + EmbedderDraws(embedder)
    /\ UNCHANGED <<sPc, requested, config, callArgs, callResult, moduleVars, libVars>>
    /\ \E v \in QueryVecs : qv' = Some(v)
    /\ calls' = Append(calls, "retriever.embed_query")
    /\ pc' = "select"
    /\ UNCHANGED <<heap, query, passages, vectors, metadata, selected_idxs,
                   metadata_with_selection, context_str, prompt, result, error>>

\* embed_query raises: a given embedder fails on this call.  _rand_vec has
\* just returned inside retrieve and does the same here.
EmbedQueryRaises ==
    /\ pc = "embed"
    /\ embedder = "given"
    /\ UNCHANGED <<sensorVars, moduleVars, libVars>>
    /\ calls' = Append(calls, "retriever.embed_query raised")
    /\ error' = Some("retriever.embed_query raised")
    /\ pc' = "raised"
    /\ UNCHANGED <<heap, query, passages, vectors, metadata, qv, selected_idxs,
                   metadata_with_selection, context_str, prompt, result>>

\* selected_idxs = self.sensor.select(qv, vectors, budget=self.budget)
SelectChunks ==
    /\ pc = "select"
    /\ UNCHANGED <<sPc, requested, config, callArgs, callResult, moduleVars, libVars>>
    /\ \E out \in SensorSelect(self_sensor, qv[1], vectors, self_budget) :
          LET draws == /\ self_sensor.class = "AdvancedSensor"
                       /\ ConsumesEntropy(self_sensor.config, vectors, self_budget, out)
          IN  /\ draws => np_random < MaxDraws
              /\ np_random' = IF draws THEN np_random + 1 ELSE np_random
              /\ IF out.kind = "returned"
                 THEN /\ selected_idxs' = out.value
                      /\ pc' = "attach"
                      /\ error' = error
                      /\ calls' = Append(calls, "sensor.select")
                 ELSE /\ selected_idxs' = selected_idxs
                      /\ pc' = "raised"
                      /\ error' = Some(out.value[1])
                      /\ calls' = Append(calls, "sensor.select raised")
    /\ UNCHANGED <<heap, query, passages, vectors, metadata, qv,
                   metadata_with_selection, context_str, prompt, result>>

\* REFRAGModule.forward, steps 3 and 4 up to the call of the LM.
AttachCore ==
    /\ pc = "attach"
    /\ UNCHANGED <<sensorVars, moduleVars, libVars>>
    /\ module = "REFRAGModule"
    /\ LET at == AttachSelection(module, heap, metadata, selected_idxs, 0)
           ctx == Join("\n", CoreContextLines(at.heap, at.list))
       IN  /\ heap' = at.heap
           /\ metadata_with_selection' = at.list
           /\ IF self_lm = "None"
              THEN /\ result' = Some(Context(query, vectors, at.list, None, None, None, None))
                   /\ pc' = "done"
                   /\ UNCHANGED <<context_str, prompt, error>>
              ELSE IF \E j \in 1..Len(at.list) : "text" \notin at.heap[at.list[j]].keys
              THEN /\ error' = Some("KeyError: 'text'")
                   /\ pc' = "raised"
                   /\ UNCHANGED <<context_str, prompt, result>>
              ELSE /\ context_str' = ctx
                   /\ prompt' = BuildPrompt(ctx, query)
                   /\ pc' = "generate"
                   /\ UNCHANGED <<result, error>>
    /\ UNCHANGED <<query, passages, vectors, metadata, qv, selected_idxs, calls>>

\* Steps 3 to 5 without the test "if self.lm is not None".
AttachBenchCallsLM ==
    /\ pc = "attach"
    /\ UNCHANGED <<sensorVars, moduleVars, libVars>>
    /\ module = "REFRAGBenchmarkModule"
    /\ LET at == AttachSelection(module, heap, metadata, selected_idxs, 0)
           ctx == Join("\n", BenchContextParts(at.heap, at.list))
       IN  /\ heap' = at.heap
           /\ metadata_with_selection' = at.list
           /\ context_str' = ctx
           /\ prompt' = BuildPrompt(ctx, query)
    /\ pc' = "generate"
    /\ UNCHANGED <<query, passages, vectors, metadata, qv, selected_idxs, result,
                   error, calls>>

\* REFRAGBenchmarkModule.forward, steps 3 to 5, and the return when no LM
\* is configured.
AttachBench ==
    /\ pc = "attach"
    /\ UNCHANGED <<sensorVars, moduleVars, libVars>>
    /\ module = "REFRAGBenchmarkModule"
    /\ LET at == AttachSelection(module, heap, metadata, selected_idxs, 0)
           ctx == Join("\n", BenchContextParts(at.heap, at.list))
       IN  /\ heap' = at.heap
           /\ metadata_with_selection' = at.list
           /\ context_str' = ctx
           /\ prompt' = BuildPrompt(ctx, query)
           /\ IF self_lm = "None"
              THEN /\ result' = Some(Context(query, vectors, at.list, None, Some(0),
                                             Some(Len(BuildPrompt(ctx, query))),
                                             Some(Len(ctx))))
                   /\ pc' = "done"
              ELSE /\ result' = result
                   /\ pc' = "generate"
    /\ UNCHANGED <<query, passages, vectors, metadata, qv, selected_idxs, error, calls>>

\* The answer and token count forward returns after the LM call ended.
Finish(answer, tokens, call) ==
    /\ UNCHANGED <<sensorVars, moduleVars, libVars>>
    /\ result' = Some(IF module = "REFRAGModule"
                      THEN Context(query, vectors, metadata_with_selection,
                                   Some(answer), None, None, None)
                      ELSE Context(query, vectors, metadata_with_selection,
                                   Some(answer), Some(tokens),
                                   Some(Len(prompt)), Some(Len(context_str))))
    /\ calls' = Append(calls, call)
    /\ pc' = "done"
    /\ UNCHANGED <<heap, query, passages, vectors, metadata, qv, selected_idxs,
                   metadata_with_selection, context_str, prompt, error>>

\* resp = self.lm(prompt) returns.
Generate ==
    /\ pc = "generate"
    /\ \E resp \in LMResponses : Finish(resp.text, resp.total_tokens, "lm")

\* A forward that calls the LM again when it raised.
GenerateRaisesRetry ==
    /\ pc = "generate"
    /\ UNCHANGED <<sensorVars, moduleVars, libVars>>
    /\ calls' = Append(calls, "lm raised")
    /\ UNCHANGED <<heap, pc, query, passages, vectors, metadata, qv, selected_idxs,
                   metadata_with_selection, context_str, prompt, result, error>>

\* self.lm(prompt) raises an Exception e: answer = f"Error calling LM: {e}".
GenerateRaises ==
    /\ pc = "generate"
    /\ \E e \in LMErrors : Finish("Error calling LM: " \o e, 0, "lm raised")

\* The caller has the context (or the exception); the locals of forward and
\* the copies it made are gone.
Return ==
    /\ pc \in {"done", "raised"}
    /\ UNCHANGED <<sensorVars, moduleVars, libVars>>
    /\ heap' = [r \in DOMAIN heap0 |-> heap[r]]
    /\ pc' = "idle"
    /\ query' = ""
    /\ passages' = <<>>
    /\ vectors' = <<>>
    /\ metadata' = <<>>
    /\ qv' = None
    /\ selected_idxs' = <<>>
    /\ metadata_with_selection' = <<>>
    /\ context_str' = ""
    /\ prompt' = ""
    /\ result' = None
    /\ error' = None
    /\ calls' = <<>>

Next ==
    \/ \E q \in Queries : Forward(q)
    \/ Retrieve
    \/ RetrieveRaises
    \/ EmbedQuery
    \/ EmbedQueryRaises
    \/ SelectChunks
    \/ AttachCore
    \/ AttachBench
    \/ Generate
    \/ GenerateRaises
    \/ Return

Init == InitModule

\* The sensor taken alone: no module is running.
InitSensorAlone ==
    /\ InitSensor
    /\ module = "REFRAGModule"
    /\ self_lm = "None"
    /\ self_k = 0
    /\ self_budget = 0
    /\ self_sensor = BasicSensor("heuristic", None, None)
    /\ corpus = <<>>
    /\ embedder = "rand_vec"
    /\ heap = <<>>
    /\ heap0 = <<>>
    /\ IdleLocals
    /\ InitLib

SpecSensor == InitSensorAlone /\ [][NextSensor]_vars

\* The serializers, chunk_text, the store and the threads that sample,
\* each taken alone.
SpecFragments == InitSensorAlone /\ [][NextFragments]_vars

SpecFacade == InitSensorAlone /\ [][NextFacade]_vars

SpecChunk == InitSensorAlone /\ [][NextChunk]_vars

SpecStore == InitSensorAlone /\ [][NextStore]_vars

SpecRandom == InitSensorAlone /\ [][NextRandom]_vars

Spec == Init /\ [][Next]_vars

(***************************************************************************)
(* Properties of AdvancedSensor, under SpecSensor.                         *)
(***************************************************************************)

\* The select call that has just returned.
TheCall == callArgs[1]
TheValue == callResult[1].value
TheConfig == config[1]

Distinct(s) == \A i, j \in 1..Len(s) : i # j => s[i] # s[j]

\* A select call on a non-empty candidate list with budget > 0 has returned.
SelectReturned ==
    /\ sPc = "returned"
    /\ TheCall.chunk_vecs # <<>>
    /\ TheCall.budget > 0

\* C1: for every strategy, a select call on N >= 1 candidates with
\* budget > 0 returns exactly min(budget, N) pairwise distinct indices, each
\* in 0..N-1.  (Stated for configurations without min_score, whose filter
\* the claim does not mention.)
C1_ExactlyMinBudgetN ==
    (/\ sPc \in {"returned", "select_raised"}
     /\ TheCall.chunk_vecs # <<>>
     /\ TheCall.budget > 0
     /\ TheConfig.min_score = None) =>
        /\ sPc = "returned"
        /\ Len(TheValue) = Min(TheCall.budget, Len(TheCall.chunk_vecs))
        /\ Distinct(TheValue)
        /\ RangeOf(TheValue) \subseteq Indices(TheCall.chunk_vecs)

\* The configuration the constructor was called with (the default one when
\* the argument was None).
RequestedConfig == IF requested[1] = None THEN DefaultConfig ELSE requested[1][1]

\* The values C10 calls invalid.
OutOfRange(c) ==
    \/ c.diversity_lambda < 0 \/ c.diversity_lambda > 4
    \/ c.temperature <= 0
    \/ c.adaptive_percentile < 0 \/ c.adaptive_percentile > 4

\* C10: constructing an AdvancedSensor with diversity_lambda outside
\* [0, 1], temperature <= 0 or adaptive_percentile outside [0, 1] raises
\* at construction: no sensor exists and no select call is made on it; and
\* a sensor that exists holds exactly the configuration it was given, no
\* value clamped or replaced.
C10_InvalidConfigFailsAtConstruction ==
    sPc # "unbuilt" =>
        /\ OutOfRange(RequestedConfig) =>
              /\ sPc = "ctor_raised"
              /\ config = None
              /\ callArgs = None
              /\ callResult = None
        /\ config # None => config[1] = RequestedConfig
        /\ sPc = "ctor_raised" => OutOfRange(RequestedConfig)

\* A constructor call with temperature 0 has raised.
C10_Witness ==
    /\ sPc = "ctor_raised"
    /\ RequestedConfig.temperature = 0
    /\ config = None

\* A select call has ended, by a return or by an exception.
SelectEnded == sPc \in {"returned", "select_raised"}

\* The scores of the candidates of the call.
TheScores == ComputeSimilarities(TheCall.query_vec, TheCall.chunk_vecs)

\* The budget select works with: min(budget, N).
TheBudget == Min(TheCall.budget, Len(TheCall.chunk_vecs))

\* s is ordered by descending score.
Descending(s, sc) == \A i, j \in 1..Len(s) : i < j => sc[s[i]] >= sc[s[j]]

\* No candidate of S left out of s has a higher score than one in s.
TopOf(s, S, sc) == \A x \in S \ RangeOf(s), y \in RangeOf(s) : sc[x] <= sc[y]

\* C11: for a config that passed validation, every strategy, every
\* candidate list and every budget > 0, select returns a list: no select
\* call raises.
C11_SelectNeverRaises == ~(sPc = "select_raised" /\ TheCall.budget > 0)

\* C12: for every strategy and every budget, select on an empty candidate
\* list returns the empty list and raises nothing.
C12_EmptyListGivesEmptyResult ==
    (SelectEnded /\ TheCall.chunk_vecs = <<>>) => callResult = Some(Returned(<<>>))

\* Uncertainty, which would fail on an empty array, was given an empty list
\* and a budget of three, and returned.
C12_Witness ==
    /\ sPc = "returned"
    /\ TheConfig.strategy = "uncertainty"
    /\ TheCall.chunk_vecs = <<>>
    /\ TheCall.budget = 3
    /\ TheValue = <<>>

\* C13: Similarity returns the indices by descending score, and of two
\* candidates with equal scores the one with the smaller index comes first
\* and is the one kept by the cut: the result is the first `budget` entries
\* of the stable descending order.
C13_SimilarityTiesAscendingIndex ==
    (SelectReturned /\ TheConfig.strategy = "similarity" /\ TheConfig.min_score = None) =>
        TheValue = Take(SortedDescending(Indices(TheCall.chunk_vecs), TheScores),
                        TheCall.budget)

\* C14: MMR with diversity_lambda = 1 returns exactly the list the
\* Similarity strategy returns for the same query, candidates and budget.
C14_MMRLambdaOneIsSimilarity ==
    (sPc = "returned" /\ TheConfig.strategy = "mmr" /\ TheConfig.diversity_lambda = 4) =>
        AdvancedSelect(DefaultConfig, TheCall.query_vec, TheCall.chunk_vecs,
                       TheCall.budget) = {Returned(TheValue)}

\* C15: a select call of the Uncertainty strategy neither reads nor
\* advances the global random state (its randomness comes from an injected
\* source only).
C15_UncertaintyLeavesGlobalRandomState ==
    [][(sPc = "ready" /\ TheConfig.strategy = "uncertainty") => np_random' = np_random]_vars

\* C16: a select call of Similarity, MMR, Adaptive or Ensemble (with default
\* or with configured weights) consumes nothing from the random source.
C16_OtherStrategiesConsumeNoEntropy ==
    [][(sPc = "ready" /\ TheConfig.strategy # "uncertainty") => np_random' = np_random]_vars

\* C17: with min_score set, a Similarity call on a non-empty list returns
\* (it does not raise) only indices scoring at least min_score: the top
\* `budget` of them, by descending score; when none reaches min_score the
\* result is empty.
C17_MinScoreFilters ==
    (SelectEnded /\ TheConfig.strategy = "similarity" /\ TheConfig.min_score # None
       /\ TheCall.chunk_vecs # <<>>) =>
        LET valid == {i \in Indices(TheCall.chunk_vecs) :
                        TheScores[i] >= TheConfig.min_score[1]}
        IN  /\ sPc = "returned"
            /\ RangeOf(TheValue) \subseteq valid
            /\ Distinct(TheValue)
            /\ Len(TheValue) = Min(TheCall.budget, Cardinality(valid))
            /\ Descending(TheValue, TheScores)
            /\ TopOf(TheValue, valid, TheScores)
            /\ valid = {} => TheValue = <<>>

\* No candidate of three reached min_score: the result is empty.
C17_Witness ==
    /\ sPc = "returned"
    /\ TheConfig.strategy = "similarity"
    /\ TheConfig.min_score # None
    /\ Len(TheCall.chunk_vecs) = 3
    /\ TheCall.budget = 2
    /\ \A i \in Indices(TheCall.chunk_vecs) : TheScores[i] < TheConfig.min_score[1]
    /\ TheValue = <<>>

\* C18: an Adaptive call on a non-empty list with budget > 0 returns the (at
\* most budget) highest-scoring candidates among those at or above the
\* percentile cutoff, by descending score, or the single highest-scoring
\* candidate when none passes; so it returns at least one index and always
\* a highest-scoring candidate.
C18_AdaptiveKeepsTheBest ==
    (SelectEnded /\ TheConfig.strategy = "adaptive" /\ TheCall.chunk_vecs # <<>>
       /\ TheCall.budget > 0) =>
        LET N == Indices(TheCall.chunk_vecs)
            threshold4 == Percentile(N, TheScores, TheConfig.adaptive_percentile)
            passing == {i \in N : 4 * TheScores[i] >= threshold4}
        IN  /\ sPc = "returned"
            /\ Len(TheValue) >= 1
            /\ Len(TheValue) <= TheCall.budget
            /\ Distinct(TheValue)
            /\ \E i \in RangeOf(TheValue) : \A m \in N : TheScores[m] <= TheScores[i]
            /\ IF passing = {}
               THEN TheValue = <<ArgMax(N, TheScores)>>
               ELSE /\ RangeOf(TheValue) \subseteq passing
                    /\ Len(TheValue) = Min(TheCall.budget, Cardinality(passing))
                    /\ Descending(TheValue, TheScores)
                    /\ TopOf(TheValue, passing, TheScores)

\* Of three candidates two passed the cutoff; with a budget of three both
\* were returned, best first.
C18_Witness ==
    /\ sPc = "returned"
    /\ TheConfig.strategy = "adaptive"
    /\ Len(TheCall.chunk_vecs) = 3
    /\ TheCall.budget = 3
    /\ Len(TheValue) = 2
    /\ TheScores[TheValue[1]] > TheScores[TheValue[2]]

\* C19: with adaptive_percentile = 0 the cutoff is the minimum score, no
\* candidate is filtered out, and Adaptive returns min(budget, N) indices
\* from the top of the full descending ranking: what Similarity (without
\* min_score) returns for the same inputs.
C19_AdaptiveZeroIsSimilarity ==
    (SelectEnded /\ TheConfig.strategy = "adaptive" /\ TheConfig.adaptive_percentile = 0
       /\ TheCall.chunk_vecs # <<>>) =>
        LET N == Indices(TheCall.chunk_vecs)
            similarity == AdvancedSelect(DefaultConfig, TheCall.query_vec,
                                         TheCall.chunk_vecs, TheCall.budget)
        IN  /\ sPc = "returned"
            /\ Percentile(N, TheScores, 0) = 4 * TheScores[CHOOSE i \in N :
                                                   \A m \in N : TheScores[i] <= TheScores[m]]
            /\ Len(TheValue) = TheBudget
            /\ Descending(TheValue, TheScores)
            /\ TopOf(TheValue, N, TheScores)
            /\ callResult[1] \in similarity
            /\ AdvancedSelect(TheConfig, TheCall.query_vec, TheCall.chunk_vecs,
                              TheCall.budget) = similarity

\* Percentile 0, three candidates with a lowest one, budget three: all three
\* are returned.
C19_Witness ==
    /\ sPc = "returned"
    /\ TheConfig.strategy = "adaptive"
    /\ TheConfig.adaptive_percentile = 0
    /\ Len(TheCall.chunk_vecs) = 3
    /\ TheCall.budget = 3
    /\ Len(TheValue) = 3
    /\ TheScores[TheValue[3]] < TheScores[TheValue[2]]

\* What the two default strategies of the Ensemble return when it runs them
\* (with twice the budget).
InnerSimilarity ==
    TempSensorSelect("similarity", TheCall.query_vec, TheCall.chunk_vecs, TheBudget * 2)
InnerMMR ==
    TempSensorSelect("mmr", TheCall.query_vec, TheCall.chunk_vecs, TheBudget * 2)

\* C20: when the two equal-weight strategies of the default Ensemble
\* produce the same ranking, the votes of that ranking, counted twice, rank
\* the candidates as the ranking does: the result is its first `budget`
\* indices in the same order.
C20_EnsembleOfEqualRankings ==
    (sPc = "returned" /\ TheConfig.strategy = "ensemble"
       /\ TheConfig.ensemble_weights = None /\ TheCall.chunk_vecs # <<>>) =>
        /\ \A os \in InnerSimilarity, om \in InnerMMR :
              os = om =>
                 LET ballot == Ballot(os.value, 2, TheCall.chunk_vecs)
                     votes == [i \in Indices(TheCall.chunk_vecs) |-> ballot[i] + ballot[i]]
                 IN  TopDescending(Indices(TheCall.chunk_vecs), votes, TheBudget)
                        = {Take(os.value, TheBudget)}
        /\ (InnerSimilarity = InnerMMR /\ Cardinality(InnerMMR) = 1) =>
              \A os \in InnerSimilarity : TheValue = Take(os.value, TheBudget)

\* Similarity and MMR rank three candidates alike; the Ensemble with budget
\* two returned the first two of that ranking.
C20_Witness ==
    /\ sPc = "returned"
    /\ TheConfig.strategy = "ensemble"
    /\ TheConfig.ensemble_weights = None
    /\ Len(TheCall.chunk_vecs) = 3
    /\ TheCall.budget = 2
    /\ InnerSimilarity = InnerMMR
    /\ Cardinality(InnerMMR) = 1
    /\ \A os \in InnerSimilarity : Len(os.value) = 3 /\ TheValue = Take(os.value, 2)

(***************************************************************************)
(* Properties of forward, under Spec.                                      *)
(***************************************************************************)

\* The context forward returned.
TheResult == result[1]

\* The metadata dict of entry j of the result.
ResultMeta(j) == heap[TheResult.chunk_metadata[j]]

\* The candidate's own metadata dict, as it was before the first call.
OwnMeta(j) == heap0[passages[j].metadata]

RetrieverErrors == {"retriever.retrieve raised", "retriever.embed_query raised"}
SensorErrors == {"RecursionError", "ValueError: Fewer non-zero entries in p than size"}

\* The calls of a complete run, before the LM.
CallsBeforeLM == <<"retriever.retrieve", "retriever.embed_query", "sensor.select">>

\* C2: in the result of a run, metadata entry i has selected = true exactly
\* when i is in the list the sensor returned, whatever the candidate's own
\* metadata holds; so the number of entries with selected = true is the
\* number of selected indices.
C2_SelectedFlagIsTheSelection ==
    pc = "done" =>
        /\ \A j \in 1..Len(TheResult.chunk_metadata) :
              /\ "selected" \in ResultMeta(j).keys
              /\ ResultMeta(j).selected = ((j - 1) \in RangeOf(selected_idxs))
        /\ Cardinality({j \in 1..Len(TheResult.chunk_metadata) : GetSelected(ResultMeta(j))})
              = Len(selected_idxs)

\* C3: from retrieval to output a run holds one vector and one metadata
\* entry per retrieved candidate, min(k, corpus size) of them, in retrieval
\* order, and every metadata entry of the result has a `selected` key.
C3_OneEntryPerCandidate ==
    /\ pc \in {"embed", "select", "attach", "generate", "done"} =>
          /\ Len(passages) = Min(self_k, Len(corpus))
          /\ Len(vectors) = Len(passages)
          /\ Len(metadata) = Len(passages)
    /\ pc \in {"generate", "done"} => Len(metadata_with_selection) = Len(passages)
    /\ pc = "done" =>
          /\ result # None
          /\ Len(TheResult.chunk_vectors) = Len(passages)
          /\ Len(TheResult.chunk_metadata) = Len(passages)
          /\ \A j \in 1..Len(passages) :
                /\ TheResult.chunk_vectors[j] = passages[j].vector
                /\ "selected" \in ResultMeta(j).keys
                /\ ResultMeta(j).keys \ {"selected"} = OwnMeta(j).keys \ {"selected"}
                /\ ResultMeta(j).id = OwnMeta(j).id
                /\ ResultMeta(j).text = OwnMeta(j).text

\* A run with k = 2 over a corpus of three has returned two entries.
C3_Witness ==
    /\ pc = "done"
    /\ self_k = 2
    /\ Len(corpus) = 3
    /\ Len(TheResult.chunk_metadata) = 2
    /\ Len(TheResult.chunk_vectors) = 2

\* C4: with a generation backend configured, a run whose retrieval (and
\* selection) succeeded ends with a result; it never ends with an
\* exception raised after the selection.
C4_RunWithLMCompletes ==
    (self_lm = "LM" /\ pc = "raised") => error[1] \in RetrieverErrors \cup SensorErrors

\* C5: the candidates' own metadata dicts are never modified: each has the
\* keys and values it had before the first forward call.
C5_OwnMetadataUnchanged ==
    /\ DOMAIN heap0 \subseteq DOMAIN heap
    /\ \A r \in DOMAIN heap0 : heap[r] = heap0[r]

\* A run has returned an entry with a `selected` key for a candidate whose
\* own metadata has none.
C5_Witness ==
    /\ pc = "done"
    /\ \E j \in 1..Len(passages) :
          /\ "selected" \in ResultMeta(j).keys
          /\ "selected" \notin heap[passages[j].metadata].keys

\* The calls made so far are those of the steps passed, each made once.
C6_Calls ==
    /\ pc \in {"idle", "retrieve"} => calls = <<>>
    /\ pc = "embed" => calls = SubSeq(CallsBeforeLM, 1, 1)
    /\ pc = "select" => calls = SubSeq(CallsBeforeLM, 1, 2)
    /\ pc = "attach" => calls = CallsBeforeLM
    /\ pc = "generate" =>
          /\ calls = CallsBeforeLM
          /\ self_lm = "LM"
          /\ prompt = BuildPrompt(context_str, query)
    /\ pc = "done" =>
          IF self_lm = "LM"
          THEN calls \in {CallsBeforeLM \o <<"lm">>, CallsBeforeLM \o <<"lm raised">>}
          ELSE calls = CallsBeforeLM
    /\ pc = "raised" =>
          \/ calls = CallsBeforeLM
          \/ \E n \in 1..3 :
                calls = SubSeq(CallsBeforeLM, 1, n - 1) \o <<CallsBeforeLM[n] \o " raised">>

\* The steps of forward follow one another in the order of the phases:
\* Retrieving (retrieve, embed), Selecting, Assembling (attach),
\* Generating, Done; Generating is passed exactly when an LM is configured.
C6_Step ==
    \/ pc = "idle" /\ pc' = "retrieve"
    \/ pc = "retrieve" /\ pc' \in {"embed", "raised"}
    \/ pc = "embed" /\ pc' \in {"select", "raised"}
    \/ pc = "select" /\ pc' \in {"attach", "raised"}
    \/ pc = "attach" /\ pc' = "generate" /\ self_lm = "LM"
    \/ pc = "attach" /\ pc' = "done" /\ self_lm = "None"
    \/ pc = "attach" /\ pc' = "raised"
    \/ pc = "generate" /\ pc' = "done"
    \/ pc \in {"done", "raised"} /\ pc' = "idle"

\* C6: one forward call passes through Retrieving, Selecting, Assembling,
\* Generating, Done in this order, Generating skipped when no LM is
\* configured; the retriever is asked to retrieve once, the sensor is
\* invoked once after retrieval, the LM at most once after the prompt is
\* built, and no step is repeated.
C6_PhasesInOrderOnce == [](C6_Calls) /\ [][C6_Step]_vars

\* A run with an LM has ended after exactly the four calls.
C6_Witness ==
    /\ pc = "done"
    /\ self_lm = "LM"
    /\ calls = CallsBeforeLM \o <<"lm">>

\* The candidates (by index) whose text is in the context block, in the
\* order in which they appear.
ContextIndices ==
    IF module = "REFRAGModule"
    THEN [j \in 1..Len(metadata_with_selection) |-> j - 1]
    ELSE BenchContextIndices(heap, metadata_with_selection, 0)

\* C7: the context block holds the text of exactly the selected candidates,
\* in selection order, and of no unselected candidate; the sizes returned
\* are the lengths of the block and of the prompt.
C7_ContextIsTheSelection ==
    /\ pc = "generate" => ContextIndices = selected_idxs
    /\ (pc = "done" /\ module = "REFRAGBenchmarkModule") =>
          /\ ContextIndices = selected_idxs
          /\ TheResult.context_chars = Some(Len(context_str))
          /\ TheResult.prompt_chars = Some(Len(prompt))

\* C8: when retrieve or embed_query raises, forward raises that failure,
\* returns no context, and calls neither the sensor nor the LM.
C8_RetrieverFailureIsFatal ==
    (\E i \in 1..Len(calls) : calls[i] \in RetrieverErrors) =>
        /\ pc = "raised"
        /\ error = Some(calls[Len(calls)])
        /\ error[1] \in RetrieverErrors
        /\ result = None
        /\ metadata_with_selection = <<>>
        /\ \A i \in 1..Len(calls) :
              calls[i] \notin {"sensor.select", "sensor.select raised", "lm", "lm raised"}

\* embed_query has raised after retrieve returned three candidates.
C8_Witness ==
    /\ pc = "raised"
    /\ calls = <<"retriever.retrieve", "retriever.embed_query raised">>
    /\ Len(passages) = 3
    /\ result = None

\* C9: with no LM configured forward never calls a generator, and a run
\* that passed retrieval and selection returns a context with answer None
\* and the full annotated candidate set.
C9_NoLMNoAnswer ==
    self_lm = "None" =>
        /\ pc # "generate"
        /\ \A i \in 1..Len(calls) : calls[i] \notin {"lm", "lm raised"}
        /\ pc = "raised" => error[1] \in RetrieverErrors \cup SensorErrors
        /\ pc = "done" =>
              /\ TheResult.answer = None
              /\ TheResult.chunk_vectors = vectors
              /\ Len(TheResult.chunk_metadata) = Len(passages)
              /\ \A j \in 1..Len(passages) : "selected" \in ResultMeta(j).keys

\* A run without LM over three candidates has returned, answer None.
C9_Witness ==
    /\ pc = "done"
    /\ self_lm = "None"
    /\ TheResult.answer = None
    /\ Len(TheResult.chunk_metadata) = 3

(***************************************************************************)
(* Properties of Fragment and the serializers, under SpecFragments.        *)
(***************************************************************************)

\* The call just made and its outcome.
SerCall == serCall[1]
SerOut == serResult[1]

\* No item of the data lacks a field.
Complete(w) == \A j \in 1..Len(w.items) : FieldNames \subseteq DOMAIN w.items[j]

\* a and b are fragments with the same five fields.
SameFragment(a, b) ==
    /\ FieldNames \subseteq DOMAIN a
    /\ FieldNames \subseteq DOMAIN b
    /\ \A name \in FieldNames : a[name] = b[name]

\* C25: constructing a Fragment with an empty text, an empty embedding or an
\* empty fragment_id raises, and no such Fragment is ever in the caller's
\* hands.
C25_EmptyFieldsFailConstruction ==
    /\ (serCall # None /\ SerCall.op = "Fragment"
        /\ (\/ SerCall.input.text = ""
            \/ Len(SerCall.input.embedding.dir) = 0
            \/ SerCall.input.fragment_id = "")) =>
          /\ SerOut.kind = "raised"
          /\ \A j \in 1..Len(fragments) : fragments[j] # SerCall.input
    /\ \A j \in 1..Len(fragments) :
          /\ fragments[j].text # ""
          /\ Len(fragments[j].embedding.dir) > 0
          /\ fragments[j].fragment_id # ""

\* A construction with an empty embedding has just raised, after another
\* fragment was built.
C25_Witness ==
    /\ serCall # None
    /\ SerCall.op = "Fragment"
    /\ Len(SerCall.input.embedding.dir) = 0
    /\ SerCall.input.text = "a"
    /\ SerOut.kind = "raised"
    /\ Len(fragments) = 1

\* C21: with MsgPackSerializer and PickleSerializer, decoding the encoded
\* batch gives as many fragments as were encoded, in the same order, each
\* equal to the original in all five fields; and the list given to the
\* encoder is, after the call, the list it was before.
C21_BinaryRoundTrip ==
    /\ (serCall # None /\ SerCall.op = "deserialize_fragments"
        /\ SerCall.by.class \in {"MsgPackSerializer", "PickleSerializer"}
        /\ Complete(SerCall.input)) =>
          /\ SerOut.kind = "returned"
          /\ Len(SerOut.value) = Len(fragments)
          /\ \A j \in 1..Len(fragments) : SameFragment(SerOut.value[j], fragments[j])
    /\ (serCall # None /\ SerCall.op = "serialize_fragments"
        /\ SerCall.by.class \in {"MsgPackSerializer", "PickleSerializer"}) =>
          fragments = SerCall.input

\* e is o brought to unit length: the doubles of o's direction divided by
\* its norm.  A zero vector has no direction and is to stay as it is.
IsUnitRescaling(e, o) ==
    IF o.unit
    THEN e.unit /\ e.dir = o.dir
    ELSE IF \A c \in 1..Len(o.dir) : o.dir[c] = 0
         THEN e = o
         ELSE /\ e.dir = Primitive(o.dir)
              /\ e.ulps = 0
              /\ e.unit \/ e.dir \in {<<1, 0>>, <<0, 1>>}

\* The fragments that decoding gave, and the fragments that the data was
\* written from.
JSONDecoded ==
    IF SerCall.op = "deserialize_fragment" THEN <<SerOut.value>> ELSE SerOut.value

JSONEncoded ==
    IF SerCall.op = "deserialize_fragment" THEN <<fragments[1]>> ELSE fragments

\* C22: with JSONFragmentSerializer(normalize_vectors=True), decoding what
\* serialize_fragment or serialize_fragments wrote gives, in the same order
\* and number, fragments with the original text, metadata, fragment_id and
\* parent_doc_id and with the original embedding brought to unit length;
\* and encoding a decoded fragment again leaves its embedding as it is.
C22_JSONRoundTripNormalizes ==
    (/\ serCall # None
     /\ SerCall.op \in {"deserialize_fragments", "deserialize_fragment"}
     /\ SerCall.by = JSONSerializer(TRUE)
     /\ Returned(SerCall.input) =
           IF SerCall.op = "deserialize_fragment"
           THEN SerializeFragment(JSONSerializer(TRUE), fragments[1])
           ELSE SerializeFragments(JSONSerializer(TRUE), fragments)) =>
       /\ SerOut.kind = "returned"
       /\ Len(JSONDecoded) = Len(JSONEncoded)
       /\ \A j \in 1..Len(JSONEncoded) :
             /\ FieldNames \subseteq DOMAIN JSONDecoded[j]
             /\ \A name \in FieldNames \ {"embedding"} :
                   JSONDecoded[j][name] = JSONEncoded[j][name]
             /\ IsUnitRescaling(JSONDecoded[j].embedding, JSONEncoded[j].embedding)
             /\ JSONItem(TRUE, JSONDecoded[j])["embedding"] = JSONDecoded[j].embedding

\* C24: a decoder given data in which an item lacks text, embedding,
\* metadata or fragment_id raises; it returns neither a Fragment nor a list.
C24_MissingFieldIsRejected ==
    (/\ serCall # None
     /\ SerCall.op \in {"deserialize_fragments", "deserialize_fragment"}
     /\ \E j \in 1..Len(SerCall.input.items) :
           ~(Required \subseteq DOMAIN SerCall.input.items[j])) =>
       SerOut.kind = "raised"

(***************************************************************************)
(* Properties of the facades, under SpecFacade.                            *)
(***************************************************************************)

\* The errors of the facades about a format tag.
ConfigErrors == {"ValueError: Unsupported format", "ValueError: Unsupported format (init)"}

\* C23: a facade call goes to the codec its format tag names, the default
\* format when no tag is given; a default_format or a format that is not
\* "json", "msgpack" or "pickle" raises.  (What the codec itself raises on
\* the data is not an error about the tag.)
C23_UnknownTagIsAnError ==
    (serCall # None /\ SerCall.op \in {"serialize", "deserialize"}) =>
       IF \/ SerCall.by.default_format \notin SUPPORTED_FORMATS
          \/ SerCall.format # None /\ SerCall.format[1] \notin SUPPORTED_FORMATS
       THEN SerOut.kind = "raised" /\ SerOut.value[1] \in ConfigErrors
       ELSE /\ SerOut.kind = "raised" => SerOut.value[1] \notin ConfigErrors
            /\ SerOut.kind = "returned" =>
                  wire[1].format = IF SerCall.format = None
                                   THEN SerCall.by.default_format
                                   ELSE SerCall.format[1]

(***************************************************************************)
(* Properties of threads that sample, under SpecRandom.                    *)
(***************************************************************************)

\* C26: the sampling rounds of one np.random.choice call are served by the
\* global RandomState one after the other, with no round of another
\* thread's call between them, so each call sees what it would see in some
\* serial order of the calls.
C26_DrawsOfACallAreNotInterleaved ==
    \A a, b, c \in 1..Len(rand_calls) :
       (a < b /\ b < c /\ rand_calls[a] = rand_calls[c]) => rand_calls[b] = rand_calls[a]

(***************************************************************************)
(* More properties of AdvancedSensor, under SpecSensor.                    *)
(***************************************************************************)

\* lambda * relevance(i) - (1 - lambda) * (the largest dot product of
\* candidate i with a candidate in picks), times 4.
MarginalRelevance(i, picks) ==
    LET vecs == TheCall.chunk_vecs
        redundancy == MaxOf({Dot(vecs[i + 1], vecs[p + 1]) : p \in picks})
    IN  TheConfig.diversity_lambda * TheScores[i]
        - (4 - TheConfig.diversity_lambda) * redundancy

\* C27: the MMR strategy returns min(budget, N) picks; the first has the
\* highest similarity to the query, every later one is a candidate not
\* picked before that has the highest marginal relevance among those not
\* picked before.
C27_MMRPicksGreedily ==
    (sPc = "returned" /\ TheConfig.strategy = "mmr" /\ TheCall.chunk_vecs # <<>>) =>
       /\ Len(TheValue) = TheBudget
       /\ \A k \in 1..Len(TheValue) :
             LET picks == {TheValue[m] : m \in 1..(k - 1)}
                 rest == Indices(TheCall.chunk_vecs) \ picks
             IN  /\ TheValue[k] \in rest
                 /\ \A i \in rest :
                       IF k = 1
                       THEN TheScores[i] <= TheScores[TheValue[1]]
                       ELSE MarginalRelevance(i, picks)
                               <= MarginalRelevance(TheValue[k], picks)

\* An MMR call has made two picks, and the second is not the candidate with
\* the highest similarity among those left: its diversity decided.
C27_Witness ==
    /\ sPc = "returned"
    /\ TheConfig.strategy = "mmr"
    /\ TheConfig.diversity_lambda = 2
    /\ Len(TheCall.chunk_vecs) = 3
    /\ Len(TheValue) = 2
    /\ \E i \in Indices(TheCall.chunk_vecs) \ {TheValue[1], TheValue[2]} :
          TheScores[i] > TheScores[TheValue[2]]

(***************************************************************************)
(* Properties of chunk_text, under SpecChunk.                              *)
(***************************************************************************)

\* C29: every pass of the loop of chunk_text moves the start position i
\* forward, so the loop ends.
C29_StartAdvances ==
    [][(ct_pc = "loop" /\ ct_pc' = "loop") => ct_i' > ct_i]_vars

(***************************************************************************)
(* Properties of InMemoryStore, under SpecStore.                           *)
(***************************************************************************)

\* The positions of self._records that hold record r.
PositionsOf(r) == {k \in 1..Len(records) : records[k] = r}

\* C30: whatever the interleaving, every record whose save has appended it
\* is in the store exactly once; a save returns the position of its record,
\* so no two saves return the same id; and the list a reader returns from
\* is the one the store holds at that moment.
C30_StoreIsConsistentUnderThreads ==
    /\ \A k \in 1..Len(saved) :
          /\ PositionsOf(saved[k].record) = {saved[k].id + 1}
          /\ \A m \in 1..Len(saved) : m # k => saved[m].id # saved[k].id
    /\ \A t \in Threads :
          thread[t].pc = "save_return" =>
             Cardinality(PositionsOf(thread[t].call[1].record)) = 1
    /\ \A t \in Threads :
          thread[t].pc = "read_return" =>
             thread[t].local[1] = Collected(thread[t].call[1], records)

\* Two threads have each finished a save, and a reader holding a record is
\* about to return while another thread waits to save.
C30_Witness ==
    /\ Len(saved) = 2
    /\ saved[1].record.key[1] # saved[2].record.key[1]
    /\ \E t \in Threads :
          /\ thread[t].pc = "read_return"
          /\ thread[t].local[1] # <<>>

(***************************************************************************)
(* More properties of forward, under Spec.                                 *)
(***************************************************************************)

\* The list a Sensor in mode "heuristic" with this sensor's threshold
\* returns for the arguments of the select call of this run.
HeuristicSelection ==
    (CHOOSE out \in BasicSelect(BasicSensor("heuristic", self_sensor.threshold, None),
                                qv[1], vectors, self_budget) : TRUE).value

\* C28: a Sensor in mode "learned" without learned weights selects as the
\* heuristic Sensor does: its select call returns, with the list the
\* heuristic policy gives.
C28_LearnedWithoutWeightsIsHeuristic ==
    (/\ self_sensor.class = "Sensor"
     /\ self_sensor.mode = "learned"
     /\ self_sensor.learned_weights = None
     /\ \E c \in 1..Len(calls) : calls[c] \in {"sensor.select", "sensor.select raised"}) =>
       /\ "sensor.select" \in RangeOf(calls)
       /\ selected_idxs = HeuristicSelection

====
